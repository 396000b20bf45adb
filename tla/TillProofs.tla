------------------------------ MODULE TillProofs ------------------------------
(***************************************************************************)
(* Proofs about Shifts, for every number of windows, shifts and documents, *)
(* and about Till, for every number of browsers, shoppers, sync loops and  *)
(* faults, every stock and every bound on carts and presses.               *)
(***************************************************************************)
EXTENDS Shifts, Till, SumLemmas, SequenceTheorems, FiniteSetTheorems, TLAPS
-----------------------------------------------------------------------------
(* Shifts: the inductive invariant *)

Opening == [do : {"open"}]
Closing == [do : {"close"}, of : 1..MaxShifts, read : SUBSET Class, found : SUBSET (1..MaxDocs)]
Storing == [do : Class, shift : 0..MaxShifts, made : 0..MaxShifts]

ShiftsTyped ==
  /\ shift \in Seq(Shift) /\ docs \in Seq(Doc)
  /\ at \in [Windows -> {Idle} \cup Opening \cup Closing \cup Storing]
  /\ doubled \in BOOLEAN /\ stray \subseteq DOMAIN docs

Openers == Doing({"open"})
Closers == Doing({"close"})
Storers == Doing(Class)
Returners == Doing({"return"})

\* What is stored and what is about to be stay within the bounds.
ShiftsBounded ==
  /\ Len(shift) + Cardinality(Openers) <= MaxShifts
  /\ Len(docs) + Cardinality(Storers) <= MaxDocs

\* A document names a shift there is.
ShiftsPlaced ==
  /\ \A d \in DOMAIN docs : {docs[d].shift, docs[d].made} \subseteq 0..Len(shift)
  /\ \A w \in Storers : {at[w].shift, at[w].made} \subseteq 0..Len(shift)
  /\ \A w \in Closers : at[w].of \in DOMAIN shift

\* Only the last shift is open, and none is while one is being opened.
LastIsOpen ==
  /\ \A s \in OpenShifts : s = Len(shift)
  /\ Openers # {} => OpenShifts = {}
  /\ \A v, w \in Openers : v = w

\* One window closes the open shift.
OneCloses ==
  /\ \A w \in Closers : at[w].of \in OpenShifts
  /\ \A v, w \in Closers : v = w

\* The timestamp of a return tells the shift it was made in: the one opened last, unless that
\* was closed by then.
InPlace(s, made) == s = made \/ (s = 0 /\ shift[made].status = "CLOSED")
ReturnsInPlace ==
  /\ \A d \in DOMAIN docs : docs[d].class = "return" => InPlace(docs[d].shift, docs[d].made)
  /\ \A w \in Returners : InPlace(at[w].shift, at[w].made)

\* ds holds what was made in shift s and belongs to the classes cs, but for the strays.
Counts(ds, s, cs) ==
  /\ ds \subseteq DOMAIN docs
  /\ \A d \in DOMAIN docs : ~docs[d].deleted =>
       (d \in ds <=> docs[d].shift = s /\ docs[d].class \in cs /\ d \notin stray)

CountsFit ==
  /\ \A w \in Closers : Counts(at[w].found, at[w].of, at[w].read)
  /\ \A s \in DOMAIN shift : shift[s].status = "CLOSED" => Counts(shift[s].counted, s, Class)

\* A stray was stored after its shift was closed, or its class read.
StraysAreLate ==
  \A d \in stray : docs[d].shift # 0 /\ CountedBy(docs[d].shift, docs[d].class)

ShiftsShape == ShiftsTyped /\ ShiftsBounded /\ ShiftsPlaced
ShiftsSerial == LastIsOpen /\ OneCloses /\ ReturnsInPlace /\ CountsFit /\ StraysAreLate
ShiftsInv == ShiftsShape /\ (~doubled => ShiftsSerial)
-----------------------------------------------------------------------------
(* What a window does *)

\* What a window is at tells what it carries.
LEMMA ShiftReads ==
  ASSUME ShiftsTyped, NEW w \in Windows
  PROVE  /\ at[w].do = "close" => at[w] \in Closing
         /\ at[w].do \in Class => at[w] \in Storing
  BY DEF ShiftsTyped, Idle, Opening, Closing, Storing, Class

\* There are finitely many windows, so those that do a thing can be counted.
LEMMA DoingIsFinite ==
  ASSUME NEW does
  PROVE  IsFiniteSet(Doing(does)) /\ Cardinality(Doing(does)) \in Nat
  BY ShiftsAssumption, FS_Subset, FS_CardinalityType DEF Doing

\* A window that moves on is counted where it arrives, and no longer where it was.
LEMMA MovesCount ==
  ASSUME NEW w \in Windows, \A v \in Windows \ {w} : at'[v] = at[v], NEW does
  PROVE  Cardinality({v \in Windows : at'[v].do \in does}) =
           Cardinality(Doing(does)) + (IF at'[w].do \in does THEN 1 ELSE 0)
                                    - (IF at[w].do \in does THEN 1 ELSE 0)
  <1> DEFINE now == {v \in Windows : at'[v].do \in does}
  <1>1. w \in Doing(does) <=> at[w].do \in does
    BY DEF Doing
  <1>2. IsFiniteSet(Doing(does)) /\ Cardinality(Doing(does)) \in Nat
    BY DoingIsFinite
  <1>3. CASE at'[w].do \in does
    <2>1. now = Doing(does) \cup {w}
      BY <1>3 DEF Doing
    <2>2. Cardinality(now) = IF w \in Doing(does) THEN Cardinality(Doing(does))
                             ELSE Cardinality(Doing(does)) + 1
      BY <1>2, <2>1, FS_AddElement
    <2> QED
      BY <1>1, <1>2, <1>3, <2>2
  <1>4. CASE at'[w].do \notin does
    <2>1. now = Doing(does) \ {w}
      BY <1>4 DEF Doing
    <2>2. Cardinality(now) = IF w \in Doing(does) THEN Cardinality(Doing(does)) - 1
                             ELSE Cardinality(Doing(does))
      BY <1>2, <2>1, FS_RemoveElement
    <2> QED
      BY <1>1, <1>2, <1>4, <2>2
  <1> QED
    BY <1>3, <1>4

\* What a moving window does to the number of those that open and of those that store.
LEMMA WindowMoves ==
  ASSUME NEW w \in Windows, \A v \in Windows \ {w} : at'[v] = at[v]
  PROVE  /\ Cardinality(Openers') = Cardinality(Openers)
              + (IF at'[w].do = "open" THEN 1 ELSE 0) - (IF at[w].do = "open" THEN 1 ELSE 0)
         /\ Cardinality(Storers') = Cardinality(Storers)
              + (IF at'[w].do \in Class THEN 1 ELSE 0) - (IF at[w].do \in Class THEN 1 ELSE 0)
         /\ Cardinality(Openers) \in Nat /\ Cardinality(Storers) \in Nat
  <1>1. Openers' = {v \in Windows : at'[v].do \in {"open"}}
    BY DEF Openers, Doing
  <1>2. Storers' = {v \in Windows : at'[v].do \in Class}
    BY DEF Storers, Doing
  <1>3. Cardinality({v \in Windows : at'[v].do \in {"open"}}) = Cardinality(Doing({"open"}))
          + (IF at'[w].do \in {"open"} THEN 1 ELSE 0) - (IF at[w].do \in {"open"} THEN 1 ELSE 0)
    BY MovesCount
  <1>4. Cardinality({v \in Windows : at'[v].do \in Class}) = Cardinality(Doing(Class))
          + (IF at'[w].do \in Class THEN 1 ELSE 0) - (IF at[w].do \in Class THEN 1 ELSE 0)
    BY MovesCount
  <1> QED
    BY <1>1, <1>2, <1>3, <1>4, DoingIsFinite DEF Openers, Storers
-----------------------------------------------------------------------------
(* Types and bounds *)

\* A window that may open a shift takes one of the places left.
LEMMA ReadForOpenShape ==
  ASSUME ShiftsShape, NEW w \in Windows, ReadForOpen(w)
  PROVE  ShiftsShape'
  <1> USE DEF ShiftsShape
  <1> DEFINE x == [do |-> "open"]
  <1>1. /\ at' = [at EXCEPT ![w] = x] /\ at[w].do = "idle"
        /\ at'[w].do = "open" /\ \A v \in Windows \ {w} : at'[v] = at[v]
        /\ shift' = shift /\ docs' = docs /\ stray' = stray
        /\ doubled' = (doubled \/ Overlaps(w, "open"))
    BY DEF ReadForOpen, Idle, ShiftsTyped
  <1>2. ShiftsTyped'
    <2>1. x \in Opening
      BY DEF Opening
    <2> QED
      BY <1>1, <2>1 DEF ShiftsTyped, Overlaps
  <1>3. ShiftsBounded'
    <2>1. /\ Cardinality(Openers') = Cardinality(Openers) + 1
          /\ Cardinality(Storers') = Cardinality(Storers)
          /\ Cardinality(Openers) \in Nat /\ Cardinality(Storers) \in Nat
      BY <1>1, WindowMoves DEF Class
    <2>2. Len(shift) + Cardinality(Openers) < MaxShifts
      BY DEF ReadForOpen, Openers
    <2> QED
      BY <1>1, <2>1, <2>2, ShiftsAssumption DEF ShiftsBounded, ShiftsTyped
  <1>4. ShiftsPlaced'
    BY <1>1 DEF ShiftsPlaced, ShiftsTyped, Storers, Closers, Doing, Class
  <1> QED
    BY <1>2, <1>3, <1>4

\* The place was kept since the window read.
LEMMA CreateShiftShape ==
  ASSUME ShiftsShape, NEW w \in Windows, CreateShift(w)
  PROVE  ShiftsShape'
  <1> USE DEF ShiftsShape
  <1>1. /\ at[w].do = "open" /\ at'[w] = Idle
        /\ at' \in [Windows -> {Idle} \cup Opening \cup Closing \cup Storing]
        /\ \A v \in Windows \ {w} : at'[v] = at[v]
        /\ docs' = docs /\ stray' = stray /\ doubled' = doubled
    BY DEF CreateShift, ShiftsTyped
  <1>2. /\ shift' \in Seq(Shift) /\ Len(shift') = Len(shift) + 1
        /\ Len(shift) \in Nat /\ Len(docs) \in Nat
        /\ DOMAIN shift = 1..Len(shift) /\ DOMAIN shift' = 1..Len(shift')
    <2>1. [status |-> "OPEN", counted |-> {}] \in Shift
      BY DEF Shift
    <2> QED
      BY <2>1 DEF CreateShift, ShiftsTyped
  <1>3. ShiftsTyped'
    BY <1>1, <1>2 DEF ShiftsTyped
  <1>4. ShiftsBounded'
    <2>1. /\ Cardinality(Openers') = Cardinality(Openers) - 1
          /\ Cardinality(Storers') = Cardinality(Storers)
          /\ Cardinality(Openers) \in Nat /\ Cardinality(Storers) \in Nat
      BY <1>1, WindowMoves DEF Idle, Class
    <2> QED
      BY <1>1, <1>2, <2>1, ShiftsAssumption DEF ShiftsBounded
  <1>5. ShiftsPlaced'
    <2>1. /\ Storers' \subseteq Storers /\ Closers' \subseteq Closers
          /\ \A v \in Storers' \cup Closers' : at'[v] = at[v]
      BY <1>1 DEF Idle, Storers, Closers, Doing, Class
    <2> QED
      BY <1>1, <1>2, <2>1 DEF ShiftsPlaced
  <1> QED
    BY <1>3, <1>4, <1>5

\* The shift to close is one there is.
LEMMA ReadForCloseShape ==
  ASSUME ShiftsShape, NEW w \in Windows, ReadForClose(w)
  PROVE  ShiftsShape'
  <1> USE DEF ShiftsShape
  <1>1. PICK s \in OpenShifts :
          at' = [at EXCEPT ![w] = [do |-> "close", of |-> s, read |-> {}, found |-> {}]]
    BY DEF ReadForClose
  <1>2. /\ at[w].do = "idle" /\ at'[w].do = "close" /\ at'[w].of = s
        /\ \A v \in Windows \ {w} : at'[v] = at[v]
        /\ shift' = shift /\ docs' = docs /\ stray' = stray
        /\ doubled' = (doubled \/ Overlaps(w, "close"))
    BY <1>1 DEF ReadForClose, Idle, ShiftsTyped
  <1>3. /\ Cardinality(Openers') = Cardinality(Openers)
        /\ Cardinality(Storers') = Cardinality(Storers)
        /\ Cardinality(Openers) \in Nat
    BY <1>2, WindowMoves DEF Class
  <1>4. s \in DOMAIN shift /\ s \in 1..MaxShifts
    BY <1>3, ShiftsAssumption DEF OpenShifts, ShiftsTyped, ShiftsBounded
  <1>5. ShiftsTyped'
    <2>1. [do |-> "close", of |-> s, read |-> {}, found |-> {}] \in Closing
      BY <1>4 DEF Closing
    <2> QED
      BY <1>1, <1>2, <2>1 DEF ShiftsTyped, Overlaps
  <1>6. ShiftsBounded'
    BY <1>2, <1>3 DEF ShiftsBounded
  <1>7. ShiftsPlaced'
    BY <1>2, <1>4 DEF ShiftsPlaced, Storers, Closers, Doing, Class
  <1> QED
    BY <1>5, <1>6, <1>7

\* What is found for a class are documents there are.
LEMMA TallyShape ==
  ASSUME ShiftsShape, NEW w \in Windows, NEW class \in Class, Tally(w, class)
  PROVE  ShiftsShape'
  <1> USE DEF ShiftsShape
  <1> DEFINE x == [at[w] EXCEPT !.read = @ \cup {class}, !.found = @ \cup FoundBy(class, at[w].of)]
  <1>1. at[w].do = "close" /\ at[w] \in Closing /\ at' = [at EXCEPT ![w] = x]
    BY ShiftReads DEF Tally, ShiftsTyped
  <1>2. FoundBy(class, at[w].of) \subseteq 1..MaxDocs
    <2>1. FoundBy(class, at[w].of) \subseteq 1..Len(docs)
      BY DEF FoundBy, ShiftsTyped
    <2>2. Cardinality(Storers) \in Nat
      BY DoingIsFinite DEF Storers
    <2> QED
      BY <2>1, <2>2, ShiftsAssumption DEF ShiftsBounded, ShiftsTyped
  <1>3. x \in Closing /\ x.of = at[w].of
    BY <1>1, <1>2 DEF Closing
  <1>4. /\ at'[w] = x /\ at'[w].do = "close" /\ at'[w].of = at[w].of
        /\ \A v \in Windows \ {w} : at'[v] = at[v]
        /\ shift' = shift /\ docs' = docs /\ stray' = stray /\ doubled' = doubled
    BY <1>1, <1>3 DEF Tally, ShiftsTyped, Closing
  <1>5. ShiftsTyped'
    BY <1>1, <1>3, <1>4 DEF ShiftsTyped
  <1>6. ShiftsBounded'
    BY <1>1, <1>4, WindowMoves DEF ShiftsBounded, Class
  <1>7. ShiftsPlaced'
    BY <1>1, <1>4 DEF ShiftsPlaced, Storers, Closers, Doing, Class
  <1> QED
    BY <1>5, <1>6, <1>7

\* Closing a shift changes its status and what it counted, and adds none.
LEMMA CloseShiftShape ==
  ASSUME ShiftsShape, NEW w \in Windows, CloseShift(w)
  PROVE  ShiftsShape'
  <1> USE DEF ShiftsShape
  <1>1. at[w].do = "close" /\ at[w] \in Closing /\ at[w].of \in DOMAIN shift
    BY ShiftReads DEF CloseShift, ShiftsPlaced, Closers, Doing
  <1>2. /\ at'[w] = Idle
        /\ at' \in [Windows -> {Idle} \cup Opening \cup Closing \cup Storing]
        /\ \A v \in Windows \ {w} : at'[v] = at[v]
        /\ docs' = docs /\ stray' = stray /\ doubled' = doubled
    BY DEF CloseShift, ShiftsTyped
  <1>3. shift' \in Seq(Shift) /\ Len(shift') = Len(shift) /\ DOMAIN shift' = DOMAIN shift
    <2>1. [status |-> "CLOSED", counted |-> at[w].found] \in Shift
      BY <1>1 DEF Closing, Shift
    <2> QED
      BY <1>1, <2>1 DEF CloseShift, ShiftsTyped
  <1>4. ShiftsTyped'
    BY <1>2, <1>3 DEF ShiftsTyped
  <1>5. ShiftsBounded'
    <2>1. /\ at[w].do # "open" /\ at[w].do \notin Class
          /\ at'[w].do # "open" /\ at'[w].do \notin Class
      BY <1>1, <1>2 DEF Class, Idle
    <2>2. \A v \in Windows \ {w} : at'[v] = at[v]
      BY <1>2
    <2>3. /\ Cardinality(Openers') = Cardinality(Openers)
          /\ Cardinality(Storers') = Cardinality(Storers)
      BY <2>1, <2>2, WindowMoves
    <2> QED
      BY <1>2, <1>3, <2>3 DEF ShiftsBounded
  <1>6. ShiftsPlaced'
    BY <1>1, <1>2, <1>3 DEF ShiftsPlaced, Idle, Storers, Closers, Doing, Class
  <1> QED
    BY <1>4, <1>5, <1>6

\* A document to be stored takes one of the places left, and names a shift there is or none.
LEMMA BeginShape ==
  ASSUME ShiftsShape, NEW w \in Windows, NEW class \in Class, Begin(w, class)
  PROVE  ShiftsShape'
  <1> USE DEF ShiftsShape
  <1>1. PICK s \in ShiftFor(class) :
          at' = [at EXCEPT ![w] = [do |-> class, shift |-> s,
                                   made |-> IF class = "return" THEN Len(shift) ELSE 0]]
    BY DEF Begin
  <1>2. /\ at[w].do = "idle" /\ at'[w].do = class /\ at'[w].shift = s
        /\ at'[w].made \in {0, Len(shift)}
        /\ \A v \in Windows \ {w} : at'[v] = at[v]
        /\ shift' = shift /\ docs' = docs /\ stray' = stray /\ doubled' = doubled
    BY <1>1 DEF Begin, Idle, ShiftsTyped
  <1>3. /\ Cardinality(Openers') = Cardinality(Openers)
        /\ Cardinality(Storers') = Cardinality(Storers) + 1
        /\ Cardinality(Openers) \in Nat /\ Cardinality(Storers) \in Nat
    <2>1. /\ at[w].do # "open" /\ at[w].do \notin Class
          /\ at'[w].do # "open" /\ at'[w].do \in Class
      BY <1>2 DEF Class
    <2>2. \A v \in Windows \ {w} : at'[v] = at[v]
      BY <1>2
    <2> QED
      BY <2>1, <2>2, WindowMoves
  <1>4. s \in 0..Len(shift) /\ Len(shift) \in 0..MaxShifts
    BY <1>3, ShiftsAssumption DEF ShiftFor, Found, OpenShifts, ShiftsTyped, ShiftsBounded
  <1>5. ShiftsTyped'
    <2>1. [do |-> class, shift |-> s, made |-> IF class = "return" THEN Len(shift) ELSE 0]
            \in Storing
      BY <1>4, ShiftsAssumption DEF Storing
    <2> QED
      BY <1>1, <1>2, <2>1 DEF ShiftsTyped
  <1>6. ShiftsBounded'
    BY <1>2, <1>3, ShiftsAssumption DEF ShiftsBounded, Begin, Storers, ShiftsTyped
  <1>7. ShiftsPlaced'
    BY <1>2, <1>4 DEF ShiftsPlaced, Storers, Closers, Doing, Class
  <1> QED
    BY <1>5, <1>6, <1>7

\* The place was kept since the request began.
LEMMA StoreShape ==
  ASSUME ShiftsShape, NEW w \in Windows, Store(w)
  PROVE  ShiftsShape'
  <1> USE DEF ShiftsShape
  <1> DEFINE new == [class |-> at[w].do, shift |-> at[w].shift, made |-> at[w].made,
                     deleted |-> FALSE]
  <1>1. at[w].do \in Class /\ at[w] \in Storing /\ new \in Doc /\ docs' = Append(docs, new)
    BY ShiftReads DEF Store, Storing, Doc
  <1>2. /\ docs' \in Seq(Doc) /\ Len(docs') = Len(docs) + 1 /\ Len(docs) \in Nat
        /\ docs'[Len(docs) + 1] = new
        /\ \A d \in DOMAIN docs : docs'[d] = docs[d]
        /\ DOMAIN docs = 1..Len(docs) /\ DOMAIN docs' = 1..Len(docs')
    BY <1>1 DEF ShiftsTyped
  <1>3. /\ at'[w] = Idle
        /\ at' \in [Windows -> {Idle} \cup Opening \cup Closing \cup Storing]
        /\ \A v \in Windows \ {w} : at'[v] = at[v]
        /\ shift' = shift /\ stray' \subseteq stray \cup {Len(docs')} /\ doubled' = doubled
    BY DEF Store, ShiftsTyped
  <1>4. ShiftsTyped'
    BY <1>2, <1>3 DEF ShiftsTyped
  <1>5. ShiftsBounded'
    <2>1. /\ Cardinality(Openers') = Cardinality(Openers)
          /\ Cardinality(Storers') = Cardinality(Storers) - 1
          /\ Cardinality(Storers) \in Nat
      <3>1. /\ at[w].do # "open" /\ at[w].do \in Class
            /\ at'[w].do # "open" /\ at'[w].do \notin Class
        BY <1>1, <1>3 DEF Class, Idle
      <3>2. \A v \in Windows \ {w} : at'[v] = at[v]
        BY <1>3
      <3> QED
        BY <3>1, <3>2, WindowMoves
    <2> QED
      BY <1>2, <1>3, <2>1, ShiftsAssumption DEF ShiftsBounded
  <1>6. ShiftsPlaced'
    <2>1. {new.shift, new.made} \subseteq 0..Len(shift)
      BY <1>1 DEF ShiftsPlaced, Storers, Doing
    <2>2. \A d \in DOMAIN docs' : {docs'[d].shift, docs'[d].made} \subseteq 0..Len(shift)
      <3> HIDE DEF new
      <3>1. \A d \in DOMAIN docs' : d \in DOMAIN docs \/ d = Len(docs) + 1
        BY <1>2
      <3> QED
        BY <1>2, <2>1, <3>1 DEF ShiftsPlaced
    <2>3. /\ Storers' \subseteq Storers /\ Closers' \subseteq Closers
          /\ \A v \in Storers' \cup Closers' : at'[v] = at[v]
      BY <1>3 DEF Idle, Storers, Closers, Doing, Class
    <2> QED
      BY <1>3, <2>2, <2>3 DEF ShiftsPlaced
  <1> QED
    BY <1>4, <1>5, <1>6

\* A deleted expense keeps its place.
LEMMA DeleteExpenseShape ==
  ASSUME ShiftsShape, NEW d \in DOMAIN docs, DeleteExpense(d)
  PROVE  ShiftsShape'
  <1> USE DEF ShiftsShape
  <1>1. docs \in Seq(Doc) /\ docs[d] \in Doc
    BY DEF ShiftsTyped
  <1>2. /\ [docs[d] EXCEPT !.deleted = TRUE] \in Doc
        /\ docs' = [docs EXCEPT ![d] = [docs[d] EXCEPT !.deleted = TRUE]]
    BY <1>1 DEF DeleteExpense, Doc
  <1>3. docs' \in Seq(Doc) /\ Len(docs') = Len(docs) /\ DOMAIN docs' = DOMAIN docs
    BY <1>1, <1>2
  <1>4. \A e \in DOMAIN docs : /\ docs'[e].class = docs[e].class
                                /\ docs'[e].shift = docs[e].shift
                                /\ docs'[e].made = docs[e].made
    BY <1>1, <1>2 DEF Doc
  <1>5. at' = at /\ shift' = shift /\ stray' = stray /\ doubled' = doubled
    BY DEF DeleteExpense
  <1>6. ShiftsTyped'
    BY <1>3, <1>5 DEF ShiftsTyped
  <1>7. Openers' = Openers /\ Storers' = Storers /\ Closers' = Closers
    BY <1>5 DEF Openers, Storers, Closers, Doing
  <1>8. ShiftsBounded' /\ ShiftsPlaced'
    BY <1>3, <1>4, <1>5, <1>7 DEF ShiftsBounded, ShiftsPlaced
  <1> QED
    BY <1>6, <1>8
-----------------------------------------------------------------------------
(* What holds while no two requests to open or to close overlap *)

\* Which shifts are open, from what their status is.
LEMMA Statuses ==
  ASSUME ShiftsShape
  PROVE  /\ \A s \in DOMAIN shift : shift[s].status = "CLOSED" <=> s \notin OpenShifts
         /\ OpenShifts \subseteq DOMAIN shift /\ DOMAIN shift = 1..Len(shift)
         /\ Len(shift) \in Nat /\ DOMAIN docs = 1..Len(docs) /\ Len(docs) \in Nat
  <1>1. shift \in Seq(Shift) /\ docs \in Seq(Doc)
    BY DEF ShiftsShape, ShiftsTyped
  <1>2. \A s \in DOMAIN shift : shift[s] \in Shift
    BY <1>1
  <1> QED
    BY <1>1, <1>2 DEF OpenShifts, Shift

\* Where neither the shifts nor the documents change, and no window joins or leaves the closing
\* ones, what is counted so far and why a stray is one stay as they are.
LEMMA CountsStay ==
  ASSUME CountsFit, StraysAreLate, shift' = shift, docs' = docs, stray' = stray,
         \A v \in Windows : (at[v].do = "close" \/ at'[v].do = "close") => at'[v] = at[v]
  PROVE  CountsFit' /\ StraysAreLate'
  <1>1. CountsFit'
    BY DEF CountsFit, Counts, Closers, Doing
  <1>2. StraysAreLate'
    BY DEF StraysAreLate, CountedBy
  <1> QED
    BY <1>1, <1>2

\* Nobody else is opening, or the requests have doubled.
LEMMA ReadForOpenSerial ==
  ASSUME ShiftsShape, ShiftsSerial, NEW w \in Windows, ReadForOpen(w), ~doubled'
  PROVE  ShiftsSerial'
  <1> USE DEF ShiftsSerial
  <1>1. /\ at[w].do = "idle" /\ at'[w].do = "open" /\ \A v \in Windows \ {w} : at'[v] = at[v]
        /\ shift' = shift /\ docs' = docs /\ stray' = stray /\ OpenShifts = {}
    BY DEF ReadForOpen, MayOpen, Idle, ShiftsShape, ShiftsTyped
  <1>2. \A v \in Windows \ {w} : at[v].do # "open"
    BY DEF ReadForOpen, Overlaps, Doing
  <1>3. LastIsOpen'
    BY <1>1, <1>2 DEF LastIsOpen, OpenShifts, Openers, Doing
  <1>4. OneCloses'
    BY <1>1 DEF OneCloses, OpenShifts, Closers, Doing
  <1>5. ReturnsInPlace'
    BY <1>1 DEF ReturnsInPlace, InPlace, Returners, Doing
  <1>6. CountsFit' /\ StraysAreLate'
    BY <1>1, CountsStay
  <1> QED
    BY <1>3, <1>4, <1>5, <1>6

\* No shift was open when the window read, and none has been opened since.
LEMMA CreateShiftSerial ==
  ASSUME ShiftsShape, ShiftsSerial, NEW w \in Windows, CreateShift(w), ~doubled'
  PROVE  ShiftsSerial'
  <1> USE DEF ShiftsSerial
  <1> DEFINE new == [status |-> "OPEN", counted |-> {}]
  <1>1. /\ at[w].do = "open" /\ at'[w].do = "idle" /\ \A v \in Windows \ {w} : at'[v] = at[v]
        /\ docs' = docs /\ stray' = stray
    BY DEF CreateShift, Idle, ShiftsShape, ShiftsTyped
  <1>2. /\ DOMAIN shift = 1..Len(shift) /\ DOMAIN shift' = 1..(Len(shift) + 1)
        /\ Len(shift') = Len(shift) + 1 /\ Len(shift) \in Nat
        /\ shift'[Len(shift) + 1].status = "OPEN"
        /\ \A s \in DOMAIN shift : shift'[s] = shift[s]
    BY DEF CreateShift, ShiftsShape, ShiftsTyped
  <1>3. OpenShifts = {} /\ \A v \in Windows \ {w} : at[v].do # "open"
    BY <1>1 DEF LastIsOpen, Openers, Doing
  <1>4. \A v \in Windows : at[v].do # "close" /\ at'[v].do # "close"
    BY <1>1, <1>3 DEF OneCloses, Closers, Doing
  <1>5. OpenShifts' = {Len(shift) + 1}
    BY <1>2, <1>3 DEF OpenShifts
  <1>6. LastIsOpen'
    BY <1>1, <1>2, <1>3, <1>5 DEF LastIsOpen, Openers, Doing
  <1>7. OneCloses'
    BY <1>4 DEF OneCloses, Closers, Doing
  <1>8. ReturnsInPlace'
    <2>1. \A m \in 0..Len(shift), s \in 0..Len(shift) : InPlace(s, m) => InPlace(s, m)'
      BY <1>2 DEF InPlace
    <2>2. \A d \in DOMAIN docs : docs[d].shift \in 0..Len(shift) /\ docs[d].made \in 0..Len(shift)
      BY DEF ShiftsShape, ShiftsPlaced
    <2>3. \A v \in Returners :
            /\ at[v].shift \in 0..Len(shift) /\ at[v].made \in 0..Len(shift)
            /\ v # w
      BY <1>1 DEF ShiftsShape, ShiftsPlaced, Returners, Storers, Doing, Class
    <2>4. Returners' = Returners
      BY <1>1 DEF Returners, Doing
    <2>5. \A v \in Returners' : InPlace(at[v].shift, at[v].made) /\ at'[v] = at[v]
      BY <1>1, <2>3, <2>4 DEF ReturnsInPlace, Returners, Doing
    <2> QED
      BY <1>1, <1>2, <2>1, <2>2, <2>3, <2>4, <2>5 DEF ReturnsInPlace, InPlace
  <1>9. CountsFit'
    <2>1. \A s \in DOMAIN shift' : shift'[s].status = "CLOSED" =>
            s \in DOMAIN shift /\ shift'[s] = shift[s]
      BY <1>2
    <2> QED
      BY <1>1, <1>4, <2>1 DEF CountsFit, Counts, Closers, Doing
  <1>10. StraysAreLate'
    <2>1. \A d \in stray : docs[d].shift \in DOMAIN shift /\ shift[docs[d].shift].status = "CLOSED"
      BY <1>2, <1>4 DEF StraysAreLate, CountedBy, ShiftsShape, ShiftsTyped, ShiftsPlaced
    <2> QED
      BY <1>1, <1>2, <2>1 DEF StraysAreLate, CountedBy
  <1> QED
    BY <1>6, <1>7, <1>8, <1>9, <1>10

\* Nobody else is closing, or the requests have doubled.
LEMMA ReadForCloseSerial ==
  ASSUME ShiftsShape, ShiftsSerial, NEW w \in Windows, ReadForClose(w), ~doubled'
  PROVE  ShiftsSerial'
  <1> USE DEF ShiftsSerial
  <1>1. PICK s \in OpenShifts :
          at' = [at EXCEPT ![w] = [do |-> "close", of |-> s, read |-> {}, found |-> {}]]
    BY DEF ReadForClose
  <1>2. /\ at[w].do = "idle" /\ at'[w].do = "close" /\ at'[w].of = s
        /\ at'[w].read = {} /\ at'[w].found = {}
        /\ \A v \in Windows \ {w} : at'[v] = at[v]
        /\ shift' = shift /\ docs' = docs /\ stray' = stray
    BY <1>1 DEF ReadForClose, Idle, ShiftsShape, ShiftsTyped
  <1>3. \A v \in Windows \ {w} : at[v].do # "close"
    BY DEF ReadForClose, Overlaps, Doing
  <1>4. LastIsOpen'
    BY <1>2 DEF LastIsOpen, OpenShifts, Openers, Doing
  <1>5. OneCloses'
    BY <1>2, <1>3 DEF OneCloses, OpenShifts, Closers, Doing
  <1>6. ReturnsInPlace'
    BY <1>2 DEF ReturnsInPlace, InPlace, Returners, Doing
  <1>7. CountsFit'
    BY <1>2, <1>3 DEF CountsFit, Counts, Closers, Doing
  <1>8. StraysAreLate'
    BY <1>2 DEF StraysAreLate, CountedBy
  <1> QED
    BY <1>4, <1>5, <1>6, <1>7, <1>8
\* While one window closes the open shift, a read of a class finds what is to be counted of it.
LEMMA FoundIsDue ==
  ASSUME ShiftsShape, ShiftsSerial, NEW w \in Windows, NEW class \in Class, Tally(w, class),
         NEW d \in DOMAIN docs, ~docs[d].deleted
  PROVE  d \in FoundBy(class, at[w].of) <=>
           docs[d].shift = at[w].of /\ docs[d].class = class /\ d \notin stray
  <1> USE DEF ShiftsSerial
  <1> DEFINE s == at[w].of
  <1>1. /\ at[w].do = "close" /\ class \notin at[w].read
        /\ s \in OpenShifts /\ s = Len(shift) /\ s \in 1..Len(shift)
        /\ \A v \in Windows : at[v].do = "close" => v = w
    BY Statuses DEF Tally, OneCloses, LastIsOpen, Closers, Doing
  <1>2. /\ docs[d].shift \in 0..Len(shift) /\ docs[d].made \in 0..Len(shift)
    BY DEF ShiftsShape, ShiftsPlaced
  <1>3. ~(docs[d].shift = s /\ docs[d].class = class /\ d \in stray)
    BY <1>1, Statuses DEF StraysAreLate, CountedBy
  <1>4. CASE class = "return" /\ docs[d].class = "return"
    <2>1. docs[d].made >= s <=> docs[d].shift = s
      BY <1>1, <1>2, <1>4, Statuses DEF ReturnsInPlace, InPlace
    <2> QED
      BY <1>3, <1>4, <2>1 DEF FoundBy
  <1>5. CASE ~(class = "return" /\ docs[d].class = "return")
    BY <1>3, <1>5 DEF FoundBy
  <1> QED
    BY <1>4, <1>5

\* What the tally finds for its class is what the class has for the shift now.
LEMMA TallySerial ==
  ASSUME ShiftsShape, ShiftsSerial, NEW w \in Windows, NEW class \in Class, Tally(w, class)
  PROVE  ShiftsSerial'
  <1> USE DEF ShiftsSerial
  <1>1. at[w].do = "close" /\ at[w] \in Closing
    BY ShiftReads DEF Tally, ShiftsShape
  <1>2. /\ at'[w].do = "close" /\ at'[w].of = at[w].of
        /\ at'[w].read = at[w].read \cup {class}
        /\ at'[w].found = at[w].found \cup FoundBy(class, at[w].of)
        /\ \A v \in Windows \ {w} : at'[v] = at[v]
        /\ shift' = shift /\ docs' = docs /\ stray' = stray
    BY <1>1 DEF Tally, ShiftsShape, ShiftsTyped, Closing
  <1>3. w \in Closers /\ \A v \in Windows \ {w} : at[v].do # "close"
    BY <1>1 DEF OneCloses, Closers, Doing
  <1>4. LastIsOpen'
    BY <1>1, <1>2 DEF LastIsOpen, OpenShifts, Openers, Doing
  <1>5. OneCloses'
    BY <1>1, <1>2, <1>3 DEF OneCloses, OpenShifts, Closers, Doing
  <1>6. ReturnsInPlace'
    BY <1>1, <1>2 DEF ReturnsInPlace, InPlace, Returners, Doing
  <1>7. CountsFit'
    <2>1. Counts(at[w].found, at[w].of, at[w].read)
      BY <1>3 DEF CountsFit
    <2>2. FoundBy(class, at[w].of) \subseteq DOMAIN docs
      BY DEF FoundBy
    <2>3. Counts(at'[w].found, at[w].of, at'[w].read)
      BY <1>2, <2>1, <2>2, FoundIsDue DEF Counts
    <2> QED
      BY <1>2, <1>3, <2>3 DEF CountsFit, Counts, Closers, Doing
  <1>8. StraysAreLate'
    BY <1>2 DEF StraysAreLate, CountedBy
  <1> QED
    BY <1>4, <1>5, <1>6, <1>7, <1>8

\* The one that closes the shift has read all its classes.
LEMMA CloseShiftSerial ==
  ASSUME ShiftsShape, ShiftsSerial, NEW w \in Windows, CloseShift(w)
  PROVE  ShiftsSerial'
  <1> USE DEF ShiftsSerial
  <1> DEFINE s == at[w].of
  <1>1. /\ at[w].do = "close" /\ at[w].read = Class /\ s \in OpenShifts /\ s \in DOMAIN shift
        /\ \A v \in Windows \ {w} : at[v].do # "close"
    BY Statuses DEF CloseShift, OneCloses, Closers, Doing
  <1>2. /\ at'[w].do = "idle" /\ \A v \in Windows \ {w} : at'[v] = at[v]
        /\ docs' = docs /\ stray' = stray
    BY DEF CloseShift, Idle, ShiftsShape, ShiftsTyped
  <1>3. /\ DOMAIN shift' = DOMAIN shift /\ Len(shift') = Len(shift)
        /\ shift'[s].status = "CLOSED" /\ shift'[s].counted = at[w].found
        /\ \A t \in DOMAIN shift \ {s} : shift'[t] = shift[t]
    BY <1>1 DEF CloseShift, ShiftsShape, ShiftsTyped
  <1>4. OpenShifts' = {}
    BY <1>1, <1>3 DEF LastIsOpen, OpenShifts
  <1>5. LastIsOpen'
    BY <1>1, <1>2, <1>4 DEF LastIsOpen, Openers, Doing
  <1>6. OneCloses'
    BY <1>1, <1>2 DEF OneCloses, Closers, Doing
  <1>7. ReturnsInPlace'
    <2>1. \A t \in DOMAIN shift : shift[t].status = "CLOSED" => shift'[t].status = "CLOSED"
      BY <1>3
    <2>2. \A d \in DOMAIN docs : docs[d].shift \in 0..Len(shift) /\ docs[d].made \in 0..Len(shift)
      BY DEF ShiftsShape, ShiftsPlaced
    <2>3. \A v \in Returners : at[v].shift \in 0..Len(shift) /\ at[v].made \in 0..Len(shift)
      BY DEF ShiftsShape, ShiftsPlaced, Returners, Storers, Doing, Class
    <2>4. \A v \in Returners' : v \in Returners /\ at'[v] = at[v]
      BY <1>2 DEF Returners, Doing
    <2> QED
      BY <1>2, <2>1, <2>2, <2>3, <2>4, Statuses DEF ReturnsInPlace, InPlace
  <1>8. CountsFit'
    <2>1. Counts(at[w].found, s, Class)
      BY <1>1 DEF CountsFit, Closers, Doing
    <2> QED
      BY <1>1, <1>2, <1>3, <2>1 DEF CountsFit, Counts, Closers, Doing
  <1>9. StraysAreLate'
    <2>1. \A d \in stray : docs[d].shift \in DOMAIN shift
      BY Statuses DEF StraysAreLate, ShiftsShape, ShiftsTyped, ShiftsPlaced
    <2> QED
      BY <1>1, <1>2, <1>3, <2>1 DEF StraysAreLate, CountedBy
  <1> QED
    BY <1>5, <1>6, <1>7, <1>8, <1>9

\* A return that begins to be stored is of the open shift.
LEMMA BeginSerial ==
  ASSUME ShiftsShape, ShiftsSerial, NEW w \in Windows, NEW class \in Class, Begin(w, class)
  PROVE  ShiftsSerial'
  <1> USE DEF ShiftsSerial
  <1>1. PICK s \in ShiftFor(class) :
          at' = [at EXCEPT ![w] = [do |-> class, shift |-> s,
                                   made |-> IF class = "return" THEN Len(shift) ELSE 0]]
    BY DEF Begin
  <1>2. /\ at[w].do = "idle" /\ at'[w].do = class /\ at'[w].shift = s
        /\ class = "return" => at'[w].made = Len(shift)
        /\ \A v \in Windows \ {w} : at'[v] = at[v]
        /\ shift' = shift /\ docs' = docs /\ stray' = stray
    BY <1>1 DEF Begin, Idle, ShiftsShape, ShiftsTyped
  <1>3. at'[w].do # "open" /\ at'[w].do # "close"
    BY <1>2 DEF Class
  <1>4. LastIsOpen'
    BY <1>2, <1>3 DEF LastIsOpen, OpenShifts, Openers, Doing
  <1>5. OneCloses'
    BY <1>2, <1>3 DEF OneCloses, OpenShifts, Closers, Doing
  <1>6. ReturnsInPlace'
    <2>1. class = "return" => InPlace(s, Len(shift))
      <3> SUFFICES ASSUME s \in Found PROVE InPlace(s, Len(shift))
        BY DEF ShiftFor
      <3>1. CASE OpenShifts = {}
        <4>1. s = 0 /\ (Len(shift) = 0 \/ Len(shift) \in DOMAIN shift)
          BY <3>1, Statuses DEF Found
        <4> QED
          BY <3>1, <4>1, Statuses DEF InPlace
      <3>2. CASE OpenShifts # {}
        BY <3>2 DEF Found, InPlace, LastIsOpen
      <3> QED
        BY <3>1, <3>2
    <2> QED
      BY <1>2, <2>1 DEF ReturnsInPlace, InPlace, Returners, Doing
  <1>7. CountsFit' /\ StraysAreLate'
    BY <1>2, <1>3, CountsStay
  <1> QED
    BY <1>4, <1>5, <1>6, <1>7

\* What is stored for a class that was read already is a stray.
LEMMA StoreSerial ==
  ASSUME ShiftsShape, ShiftsSerial, NEW w \in Windows, Store(w)
  PROVE  ShiftsSerial'
  <1> USE DEF ShiftsSerial
  <1> DEFINE n == Len(docs) + 1
             h == at[w].shift
             c == at[w].do
  <1>1. /\ c \in Class /\ c # "open" /\ c # "close" /\ at'[w].do = "idle"
        /\ \A v \in Windows \ {w} : at'[v] = at[v]
        /\ shift' = shift
    BY DEF Store, Idle, Class, ShiftsShape, ShiftsTyped
  <1>2. /\ DOMAIN docs = 1..Len(docs) /\ DOMAIN docs' = 1..n /\ n \notin DOMAIN docs
        /\ Len(docs') = n
        /\ \A d \in DOMAIN docs : docs'[d] = docs[d]
        /\ docs'[n].class = c /\ docs'[n].shift = h /\ docs'[n].made = at[w].made
    BY DEF Store, ShiftsShape, ShiftsTyped
  <1>3. /\ h # 0 /\ CountedBy(h, c) => stray' = stray \cup {n}
        /\ ~(h # 0 /\ CountedBy(h, c)) => stray' = stray
    BY <1>2 DEF Store
  <1>4. \A d \in DOMAIN docs : d \in stray' <=> d \in stray
    BY <1>2, <1>3
  <1>5. \A v \in Windows : (at[v].do = "close" \/ at'[v].do = "close") => at'[v] = at[v]
    BY <1>1
  <1>6. LastIsOpen'
    BY <1>1 DEF LastIsOpen, OpenShifts, Openers, Doing
  <1>7. OneCloses'
    BY <1>1, <1>5 DEF OneCloses, OpenShifts, Closers, Doing
  <1>8. ReturnsInPlace'
    <2>1. c = "return" => InPlace(h, at[w].made)
      BY DEF ReturnsInPlace, Returners, Doing
    <2>2. \A v \in Returners' : v \in Returners /\ at'[v] = at[v]
      BY <1>1 DEF Returners, Doing
    <2> QED
      BY <1>1, <1>2, <2>1, <2>2 DEF ReturnsInPlace, InPlace
  <1>9. CountsFit'
    <2>1. ASSUME NEW v \in Windows, at'[v].do = "close"
          PROVE  Counts(at[v].found, at[v].of, at[v].read)'
      <3>1. at[v].do = "close" /\ at'[v] = at[v] /\ at[v].of # 0
        BY <1>5, <2>1, Statuses DEF OneCloses, Closers, Doing
      <3>2. h = at[v].of /\ c \in at[v].read => CountedBy(h, c)
        BY <3>1 DEF CountedBy
      <3>3. Counts(at[v].found, at[v].of, at[v].read)
        BY <3>1 DEF CountsFit, Closers, Doing
      <3> QED
        BY <1>2, <1>3, <1>4, <3>1, <3>2, <3>3 DEF Counts
    <2>2. ASSUME NEW s \in DOMAIN shift, shift[s].status = "CLOSED"
          PROVE  Counts(shift[s].counted, s, Class)'
      <3>1. s # 0 /\ Counts(shift[s].counted, s, Class)
        BY <2>2, Statuses DEF CountsFit
      <3>2. h = s /\ c \in Class => CountedBy(h, c)
        BY <2>2 DEF CountedBy
      <3> QED
        BY <1>1, <1>2, <1>3, <1>4, <3>1, <3>2 DEF Counts
    <2> QED
      BY <1>1, <2>1, <2>2 DEF CountsFit, Closers, Doing
  <1>10. StraysAreLate'
    <2>1. \A s, k : CountedBy(s, k) => CountedBy(s, k)'
      BY <1>1, <1>5 DEF CountedBy
    <2>2. \A d \in stray' : d \in stray \/ (d = n /\ h # 0 /\ CountedBy(h, c))
      BY <1>3
    <2>3. stray \subseteq DOMAIN docs
      BY DEF ShiftsShape, ShiftsTyped
    <2> QED
      BY <1>2, <2>1, <2>2, <2>3 DEF StraysAreLate
  <1> QED
    BY <1>6, <1>7, <1>8, <1>9, <1>10

\* A deleted expense stays in the books of the shift.
LEMMA DeleteExpenseSerial ==
  ASSUME ShiftsShape, ShiftsSerial, NEW d \in DOMAIN docs, DeleteExpense(d)
  PROVE  ShiftsSerial'
  <1> USE DEF ShiftsSerial
  <1>1. /\ at' = at /\ shift' = shift /\ stray' = stray /\ DOMAIN docs' = DOMAIN docs
        /\ \A e \in DOMAIN docs : /\ docs'[e].class = docs[e].class
                                  /\ docs'[e].shift = docs[e].shift
                                  /\ docs'[e].made = docs[e].made
                                  /\ ~docs'[e].deleted => ~docs[e].deleted
    <2>1. docs \in Seq(Doc) /\ docs[d] \in Doc
      BY DEF ShiftsShape, ShiftsTyped
    <2> QED
      BY <2>1 DEF DeleteExpense, Doc
  <1>2. LastIsOpen' /\ OneCloses'
    BY <1>1 DEF LastIsOpen, OneCloses, OpenShifts, Openers, Closers, Doing
  <1>3. ReturnsInPlace'
    BY <1>1 DEF ReturnsInPlace, InPlace, Returners, Doing
  <1>4. CountsFit'
    BY <1>1 DEF CountsFit, Counts, Closers, Doing
  <1>5. StraysAreLate'
    BY <1>1 DEF StraysAreLate, CountedBy, ShiftsShape, ShiftsTyped
  <1> QED
    BY <1>2, <1>3, <1>4, <1>5
-----------------------------------------------------------------------------
(* The theorems *)

\* At first there is no shift.
LEMMA ShiftsStart == ShiftsInit => ShiftsInv
  <1> SUFFICES ASSUME ShiftsInit PROVE ShiftsInv
    OBVIOUS
  <1>1. /\ shift = <<>> /\ docs = <<>> /\ at = [w \in Windows |-> Idle]
        /\ doubled = FALSE /\ stray = {}
    BY DEF ShiftsInit
  <1>2. /\ Openers = {} /\ Closers = {} /\ Storers = {} /\ Returners = {} /\ OpenShifts = {}
    BY <1>1 DEF Idle, Class, Openers, Closers, Storers, Returners, Doing, OpenShifts
  <1>3. ShiftsTyped
    <2>1. shift \in Seq(Shift) /\ docs \in Seq(Doc)
      BY <1>1
    <2>2. at \in [Windows -> {Idle} \cup Opening \cup Closing \cup Storing]
      BY <1>1
    <2> QED
      BY <1>1, <2>1, <2>2 DEF ShiftsTyped
  <1>4. ShiftsBounded
    BY <1>1, <1>2, FS_EmptySet, ShiftsAssumption DEF ShiftsBounded
  <1>5. ShiftsPlaced /\ ShiftsSerial
    BY <1>1, <1>2 DEF ShiftsPlaced, ShiftsSerial, LastIsOpen, OneCloses, ReturnsInPlace, CountsFit,
                      StraysAreLate
  <1> QED
    BY <1>3, <1>4, <1>5 DEF ShiftsInv, ShiftsShape

\* Every step keeps the types and bounds, and what is serial while requests have not doubled.
LEMMA ShiftsStep == ShiftsInv /\ [ShiftsNext]_shiftVars => ShiftsInv'
  <1> SUFFICES ASSUME ShiftsInv, [ShiftsNext]_shiftVars PROVE ShiftsInv'
    OBVIOUS
  <1> USE DEF ShiftsInv
  <1>1. ASSUME NEW w \in Windows, ReadForOpen(w) PROVE ShiftsInv'
    BY <1>1, ReadForOpenShape, ReadForOpenSerial DEF ReadForOpen
  <1>2. ASSUME NEW w \in Windows, CreateShift(w) PROVE ShiftsInv'
    BY <1>2, CreateShiftShape, CreateShiftSerial DEF CreateShift
  <1>3. ASSUME NEW w \in Windows, ReadForClose(w) PROVE ShiftsInv'
    BY <1>3, ReadForCloseShape, ReadForCloseSerial DEF ReadForClose
  <1>4. ASSUME NEW w \in Windows, NEW class \in Class, Tally(w, class) PROVE ShiftsInv'
    BY <1>4, TallyShape, TallySerial DEF Tally
  <1>5. ASSUME NEW w \in Windows, CloseShift(w) PROVE ShiftsInv'
    BY <1>5, CloseShiftShape, CloseShiftSerial DEF CloseShift
  <1>6. ASSUME NEW w \in Windows, NEW class \in Class, Begin(w, class) PROVE ShiftsInv'
    BY <1>6, BeginShape, BeginSerial DEF Begin
  <1>7. ASSUME NEW w \in Windows, Store(w) PROVE ShiftsInv'
    BY <1>7, StoreShape, StoreSerial DEF Store
  <1>8. ASSUME NEW d \in DOMAIN docs, DeleteExpense(d) PROVE ShiftsInv'
    BY <1>8, DeleteExpenseShape, DeleteExpenseSerial DEF DeleteExpense
  <1>9. CASE UNCHANGED shiftVars
    BY <1>9 DEF shiftVars, ShiftsShape, ShiftsSerial, ShiftsTyped, ShiftsBounded, ShiftsPlaced,
                LastIsOpen, OneCloses,
                ReturnsInPlace, CountsFit, StraysAreLate, Openers, Closers, Storers, Returners,
                Doing, OpenShifts, Counts, CountedBy, InPlace
  <1> QED
    BY <1>1, <1>2, <1>3, <1>4, <1>5, <1>6, <1>7, <1>8, <1>9 DEF ShiftsNext

\* What the invariant says of the counts of a closed shift.
LEMMA CountFollows == ShiftsInv => ShiftsCount
  <1> SUFFICES ASSUME ShiftsInv PROVE ShiftsCount
    OBVIOUS
  <1> USE DEF ShiftsInv
  <1>1. ShiftsTypeOK
    BY DEF ShiftsTypeOK, ShiftsShape, ShiftsTyped
  <1>2. OneOpenShift
    <2>1. CASE ~doubled /\ OpenShifts = {}
      BY <2>1, FS_EmptySet DEF OneOpenShift
    <2>2. CASE ~doubled /\ OpenShifts # {}
      <3>1. OpenShifts = {Len(shift)}
        BY <2>2 DEF ShiftsSerial, LastIsOpen
      <3>2. Cardinality(OpenShifts) = 1
        BY <3>1, FS_Singleton
      <3> QED
        BY <3>2 DEF OneOpenShift
    <2> QED
      BY <2>1, <2>2 DEF OneOpenShift
  <1>3. ClosedShiftCountsAll
    <2> SUFFICES ASSUME ~doubled, NEW s \in DOMAIN shift, shift[s].status = "CLOSED"
                 PROVE  Kept(shift[s].counted) = Kept(Due(s)) \ stray
      BY DEF ClosedShiftCountsAll
    <2>1. Counts(shift[s].counted, s, Class)
      BY DEF ShiftsSerial, CountsFit
    <2>2. \A d \in DOMAIN docs : docs[d].class \in Class
      <3>1. \A d \in DOMAIN docs : docs[d] \in Doc
        BY DEF ShiftsShape, ShiftsTyped
      <3> QED
        BY <3>1 DEF Doc
    <2> QED
      BY <2>1, <2>2 DEF Kept, Due, Counts
  <1> QED
    BY <1>1, <1>2, <1>3 DEF ShiftsCount

\* No step opens a closed shift again or changes what it counted.
LEMMA HandedOverStep ==
  ShiftsInv /\ [ShiftsNext]_shiftVars =>
    \A s \in DOMAIN shift : shift[s].status = "CLOSED" /\ ~doubled => shift'[s] = shift[s]
  <1> SUFFICES ASSUME ShiftsInv, [ShiftsNext]_shiftVars, ~doubled,
                      NEW s \in DOMAIN shift, shift[s].status = "CLOSED"
               PROVE  shift'[s] = shift[s]
    OBVIOUS
  <1>1. CASE shift' = shift
    BY <1>1
  <1>2. ASSUME NEW w \in Windows, CreateShift(w) PROVE shift'[s] = shift[s]
    BY <1>2 DEF CreateShift, ShiftsInv, ShiftsShape, ShiftsTyped
  <1>3. ASSUME NEW w \in Windows, CloseShift(w) PROVE shift'[s] = shift[s]
    <2>1. at[w].of \in OpenShifts
      BY <1>3 DEF CloseShift, ShiftsInv, ShiftsSerial, OneCloses, Closers, Doing
    <2>2. at[w].of # s
      BY <2>1 DEF OpenShifts
    <2> QED
      BY <1>3, <2>2 DEF CloseShift, ShiftsInv, ShiftsShape, ShiftsTyped
  <1> QED
    BY <1>1, <1>2, <1>3 DEF ShiftsNext, shiftVars, ReadForOpen, ReadForClose, Tally, Begin, Store,
                            DeleteExpense

\* Whatever a cashier's windows do at once, one shift is open and a closed one has counted all
\* that was made in it: openShift, closeShift and the handlers that store what they count.
THEOREM ShiftsAlwaysCount == ShiftsSpec => []ShiftsCount
  <1> QED
    BY ShiftsStart, ShiftsStep, CountFollows, PTL DEF ShiftsSpec

\* No step of any handler touches a shift that closeShift has handed over.
THEOREM HandedOverForGood == ShiftsSpec => HandedOverStays
  <1> QED
    BY ShiftsStart, ShiftsStep, HandedOverStep, PTL DEF ShiftsSpec, HandedOverStays
-----------------------------------------------------------------------------
(* Till: what pages, queues, loops and calls hold *)

FullBill == [of : {{s} : s \in Shoppers}, qty : 1..(MaxQty + 1), left : 0..Stock]
Page == [cart : Bill, known : 0..Stock, offline : BOOLEAN, busy : BOOLEAN, syncing : BOOLEAN]
LoopState == [on : BOOLEAN, todo : Seq(Sale)]
Parked == [bill : FullBill, n : 1..MaxPark]
\* Who waits for a call: nobody any more, a page, or a loop of one.
ByPage == {<<t>> : t \in Tills}
By == {<<>>} \cup ByPage \cup Tills \X Loops
CheckoutCall == [kind : {"checkout"}, by : By, sale : Sale, at : {"sent", "stored", "refused"}]
HoldCall ==
  [kind : {"hold"}, by : {<<>>} \cup ByPage, at : {"sent", "stored"},
   sale : [of : Shoppers, n : 1..MaxPark, qty : 1..(MaxQty + 1)], bill : FullBill]

TillTyped ==
  /\ page \in [Tills -> Page]
  /\ queue \in [Tills -> Seq(Sale)]
  /\ loop \in [Tills -> [Loops -> LoopState]]
  /\ call \subseteq CheckoutCall \cup HoldCall
  /\ server \in [sold : SUBSET Sale, refused : SUBSET Sale, held : SUBSET Parked, stock : 0..Stock]
  /\ receipts \subseteq Sale
  /\ pressed \in [Shoppers -> 0..MaxConfirm] /\ parked \in [Shoppers -> 0..MaxPark]
  /\ unsure \subseteq Shoppers

StockTold ==
  /\ IsFiniteSet(server.sold)
  /\ server.stock = Stock - SumFunctionOnSet([s \in Sale |-> s.qty], server.sold)

Queued(x) == \E t \in Tills : x \in ToSet(queue[t])
ToPost(x) == \E t \in Tills, l \in Loops : x \in ToSet(loop[t][l].todo)
Posted(x) == \E c \in call : c.kind = "checkout" /\ c.sale = x
Confirmed(x) == x \in server.sold \/ x \in receipts \/ Queued(x) \/ ToPost(x) \/ Posted(x)

\* A confirmation is told by its shopper and number, which was counted when it was made.
SalesNumbered ==
  /\ \A x \in Sale : Confirmed(x) => x.n <= pressed[x.of]
  /\ \A x, y \in Sale : Confirmed(x) /\ Confirmed(y) /\ x.of = y.of /\ x.n = y.n => x = y

\* The sale a page waits for is posted by nobody else.
PagePostsAlone ==
  \A c \in call : c.kind = "checkout" /\ c.by \in ByPage =>
    /\ ~Queued(c.sale) /\ ~ToPost(c.sale)
    /\ \A d \in call : d.kind = "checkout" /\ d.sale = c.sale => d = c

\* A loop waits for one answer at a time, while it still has the sale to post.
LoopsWait ==
  \A t \in Tills, l \in Loops : \A c \in call : OfLoop(t, l, c) =>
    /\ loop[t][l].on /\ loop[t][l].todo # <<>>
    /\ \A d \in call : OfLoop(t, l, d) => d = c

AnswersAreTrue ==
  \A c \in call : c.kind = "checkout" /\ c.at = "stored" => c.sale \in server.sold

ReceiptsBacked == \A r \in receipts : r \in server.sold \/ Queued(r)

ParkedCounted ==
  /\ \A c \in call : c.kind = "hold" => parked[c.sale.of] >= 1 /\ c.bill.of = {c.sale.of}
  /\ \A h \in server.held, s \in Shoppers : h.bill.of = {s} => parked[s] >= 1

\* A cart is as good as gone when its page waits for a call that will empty it.
Clearing(t, s) == \E c \in call : c.by = <<t>> /\ c.sale.of = s /\ c.at # "refused"
CartsOf(s) == {t \in Tills : CartOf(t).of = {s} /\ ~Clearing(t, s)}
HeldOf(s) == {h \in server.held : h.bill.of = {s}}
ParkingOf(s) == {c \in call : c.kind = "hold" /\ c.at = "sent" /\ c.sale.of = s}
Sending(x) == \E c \in call : c.kind = "checkout" /\ c.at = "sent" /\ c.sale = x
Sells(x) == x \in server.sold \/ Queued(x) \/ ToPost(x) \/ Sending(x)
SalesOf(s) == {x \in Sale : x.of = s /\ Sells(x)}

\* Where the goods of a shopper are, who has been told apart: in one cart, parked or on the
\* way there, sold or on the way there, and in no two of these.
Places(s) ==
  {<<"cart", t>> : t \in CartsOf(s)} \cup {<<"held", h>> : h \in HeldOf(s)}
  \cup {<<"parking", c>> : c \in ParkingOf(s)} \cup {<<"sale", x>> : x \in SalesOf(s)}
OnePlace == \A s \in Shoppers \ unsure : \A p, q \in Places(s) : p = q

TillInv ==
  /\ TillTyped /\ StockTold /\ SalesNumbered /\ PagePostsAlone /\ AnswersAreTrue
  /\ ReceiptsBacked /\ ParkedCounted /\ LoopsWait /\ OnePlace

\* Nobody, a page and a loop are told apart by the length of what names them.
LEMMA ByApart ==
  \A t, u, l : /\ <<t>> # <<>> /\ <<t, l>> # <<>> /\ <<t>> # <<u, l>>
               /\ <<t>> = <<u>> => t = u
               /\ <<t>>[1] = t /\ <<t, l>>[1] = t
<1> TAKE t, u, l
<1>1. Len(<<>>) = 0 /\ Len(<<t>>) = 1 /\ Len(<<t, l>>) = 2 /\ Len(<<u, l>>) = 2
  OBVIOUS
<1>2. <<t>>[1] = t /\ <<u>>[1] = u /\ <<t, l>>[1] = t
  OBVIOUS
<1>3. QED
  BY <1>1, <1>2

\* What an offline queue, or what is left of it to post, holds after each change.
LEMMA QueueChanges ==
  ASSUME NEW S, NEW q \in Seq(S)
  PROVE  /\ ToSet(q) \subseteq S
         /\ \A x \in S : Append(q, x) \in Seq(S) /\ ToSet(Append(q, x)) = ToSet(q) \cup {x}
         /\ q # <<>> => /\ Head(q) \in ToSet(q)
                        /\ Tail(q) \in Seq(S) /\ ToSet(Tail(q)) \subseteq ToSet(q)
<1>1. /\ Len(q) \in Nat /\ DOMAIN q = 1..Len(q)
      /\ \A i \in 1..Len(q) : q[i] \in S
  OBVIOUS
<1>2. ToSet(q) \subseteq S
  BY <1>1 DEF ToSet
<1>3. ASSUME NEW x \in S PROVE Append(q, x) \in Seq(S) /\ ToSet(Append(q, x)) = ToSet(q) \cup {x}
  <2> DEFINE r == Append(q, x)
  <2>1. /\ r \in Seq(S) /\ Len(r) = Len(q) + 1 /\ DOMAIN r = 1..(Len(q) + 1)
        /\ r[Len(q) + 1] = x /\ \A i \in 1..Len(q) : r[i] = q[i]
    BY <1>1
  <2>2. ToSet(r) \subseteq ToSet(q) \cup {x}
    <3> SUFFICES ASSUME NEW i \in 1..(Len(q) + 1) PROVE r[i] \in ToSet(q) \cup {x}
      BY <2>1 DEF ToSet
    <3>1. i \in 1..Len(q) \/ i = Len(q) + 1
      BY <1>1
    <3>2. QED
      BY <1>1, <2>1, <3>1 DEF ToSet
  <2>3. ToSet(q) \cup {x} \subseteq ToSet(r)
    <3>1. \A i \in 1..Len(q) : i \in DOMAIN r
      BY <1>1, <2>1
    <3>2. Len(q) + 1 \in DOMAIN r
      BY <1>1, <2>1
    <3>3. QED
      BY <1>1, <2>1, <3>1, <3>2 DEF ToSet
  <2>4. QED
    BY <2>1, <2>2, <2>3
<1>4. ASSUME q # <<>>
      PROVE  /\ Head(q) \in ToSet(q)
             /\ Tail(q) \in Seq(S) /\ ToSet(Tail(q)) \subseteq ToSet(q)
  <2>1. Len(q) > 0 /\ Head(q) = q[1] /\ 1 \in DOMAIN q
    BY <1>1, <1>4, EmptySeq
  <2>2. /\ Tail(q) \in Seq(S) /\ Len(Tail(q)) = Len(q) - 1
        /\ DOMAIN Tail(q) = 1..(Len(q) - 1) /\ \A i \in 1..(Len(q) - 1) : Tail(q)[i] = q[i + 1]
    BY <1>1, <1>4, <2>1
  <2>3. \A i \in 1..(Len(q) - 1) : i + 1 \in DOMAIN q
    BY <1>1
  <2>4. QED
    BY <2>1, <2>2, <2>3 DEF ToSet
<1>5. QED
  BY <1>2, <1>3, <1>4

\* A sale deleted from the queue leaves the others.
LEMMA WithoutOne ==
  ASSUME NEW S, NEW q \in Seq(S), NEW x
  PROVE  /\ Without(q, x) \in Seq(S)
         /\ ToSet(Without(q, x)) \subseteq ToSet(q)
         /\ ToSet(q) \subseteq ToSet(Without(q, x)) \cup {x}
<1>1. /\ Len(q) \in Nat /\ DOMAIN q = 1..Len(q)
      /\ \A i \in 1..Len(q) : q[i] \in S
  OBVIOUS
<1>2. CASE x \notin ToSet(q)
  BY <1>2 DEF Without
<1>3. CASE x \in ToSet(q)
  <2> DEFINE k == CHOOSE i \in DOMAIN q : q[i] = x
             a == SubSeq(q, 1, k - 1)
             b == SubSeq(q, k + 1, Len(q))
  <2>1. k \in 1..Len(q) /\ q[k] = x
    BY <1>1, <1>3 DEF ToSet
  <2>2. Without(q, x) = a \o b
    BY <1>3 DEF Without, RemoveAt
  <2> HIDE DEF k
  <2>3. /\ a \in Seq(S) /\ Len(a) = k - 1 /\ \A i \in 1..(k - 1) : a[i] = q[i]
    <3>1. k - 1 \in Int /\ \A i \in 1..(k - 1) : q[i] \in S
      BY <1>1, <2>1
    <3>2. /\ a \in Seq(S) /\ Len(a) = IF 1 <= k - 1 THEN (k - 1) - 1 + 1 ELSE 0
          /\ \A i \in 1..((k - 1) - 1 + 1) : a[i] = q[1 + i - 1]
      BY <3>1, SubSeqProperties
    <3>3. QED
      BY <1>1, <2>1, <3>2
  <2>4. /\ b \in Seq(S) /\ Len(b) = Len(q) - k /\ \A i \in 1..(Len(q) - k) : b[i] = q[k + i]
    <3>1. k + 1 \in Int /\ Len(q) \in Int /\ \A i \in (k + 1)..Len(q) : q[i] \in S
      BY <1>1, <2>1
    <3>2. /\ b \in Seq(S) /\ Len(b) = IF k + 1 <= Len(q) THEN Len(q) - (k + 1) + 1 ELSE 0
          /\ \A i \in 1..(Len(q) - (k + 1) + 1) : b[i] = q[(k + 1) + i - 1]
      BY <3>1, SubSeqProperties, SMTT(30)
    <3> HIDE DEF b
    <3>3. Len(q) - (k + 1) + 1 = Len(q) - k /\ (~ (k + 1 <= Len(q)) => Len(q) - k = 0)
      <4>1. \A n \in Nat : \A j \in 1..n :
              n - (j + 1) + 1 = n - j /\ (~ (j + 1 <= n) => n - j = 0)
        OBVIOUS
      <4>2. QED
        BY <1>1, <2>1, <4>1
    <3>4. \A i \in 1..(Len(q) - k) : (k + 1) + i - 1 = k + i
      BY <1>1, <2>1
    <3>5. Len(b) = Len(q) - k
      BY <3>2, <3>3
    <3>6. QED
      BY <3>2, <3>3, <3>4, <3>5
  <2> HIDE DEF a, b
  <2>5. /\ a \o b \in Seq(S) /\ Len(a \o b) = Len(q) - 1
        /\ \A i \in 1..(Len(q) - 1) : (a \o b)[i] = IF i <= k - 1 THEN q[i] ELSE q[i + 1]
    <3>1. /\ a \o b \in Seq(S) /\ Len(a \o b) = Len(a) + Len(b)
          /\ \A i \in 1..(Len(a) + Len(b)) :
               (a \o b)[i] = IF i <= Len(a) THEN a[i] ELSE b[i - Len(a)]
      BY <2>3, <2>4, ConcatProperties
    <3>2. Len(a) + Len(b) = Len(q) - 1
      BY <1>1, <2>1, <2>3, <2>4
    <3>3. ASSUME NEW i \in 1..(Len(q) - 1)
          PROVE (a \o b)[i] = IF i <= k - 1 THEN q[i] ELSE q[i + 1]
      <4>1. CASE i <= k - 1
        BY <1>1, <2>1, <2>3, <3>1, <3>2, <4>1
      <4>2. CASE ~ (i <= k - 1)
        <5>1. (a \o b)[i] = b[i - (k - 1)] /\ i - (k - 1) \in 1..(Len(q) - k)
          BY <1>1, <2>1, <2>3, <3>1, <3>2, <4>2
        <5>2. b[i - (k - 1)] = q[k + (i - (k - 1))] /\ k + (i - (k - 1)) = i + 1
          BY <1>1, <2>1, <2>4, <5>1
        <5>3. QED
          BY <4>2, <5>1, <5>2
      <4>3. QED
        BY <4>1, <4>2
    <3>4. QED
      BY <3>1, <3>2, <3>3
  <2>6. DOMAIN (a \o b) = 1..(Len(q) - 1)
    BY <2>5
  <2>7. ToSet(a \o b) \subseteq ToSet(q)
    <3>1. \A i \in 1..(Len(q) - 1) : i \in DOMAIN q /\ i + 1 \in DOMAIN q
      BY <1>1
    <3>2. QED
      BY <2>5, <2>6, <3>1 DEF ToSet
  <2>8. ToSet(q) \subseteq ToSet(a \o b) \cup {x}
    <3> SUFFICES ASSUME NEW i \in 1..Len(q) PROVE q[i] \in ToSet(a \o b) \cup {x}
      BY <1>1 DEF ToSet
    <3>1. CASE i < k
      <4>1. i \in 1..(Len(q) - 1) /\ i <= k - 1
        <5>1. \A n \in Nat : \A j \in 1..n : \A m \in 1..n : m < j => m \in 1..(n - 1) /\ m <= j - 1
          OBVIOUS
        <5>2. QED
          BY <1>1, <2>1, <3>1, <5>1
      <4>2. (a \o b)[i] = q[i]
        BY <2>5, <4>1
      <4>3. QED
        BY <2>6, <4>1, <4>2 DEF ToSet
    <3>2. CASE i = k
      BY <2>1, <3>2
    <3>3. CASE i > k
      <4>1. i - 1 \in 1..(Len(q) - 1) /\ ~ (i - 1 <= k - 1) /\ (i - 1) + 1 = i
        <5>1. \A n \in Nat : \A j \in 1..n : \A m \in 1..n : m > j =>
                m - 1 \in 1..(n - 1) /\ ~ (m - 1 <= j - 1) /\ (m - 1) + 1 = m
          OBVIOUS
        <5>2. QED
          BY <1>1, <2>1, <3>3, <5>1
      <4>2. (a \o b)[i - 1] = q[i]
        BY <2>5, <4>1
      <4>3. QED
        BY <2>6, <4>1, <4>2 DEF ToSet
    <3>4. QED
      BY <1>1, <2>1, <3>1, <3>2, <3>3
  <2>9. QED
    BY <2>2, <2>5, <2>7, <2>8
<1>4. QED
  BY <1>2, <1>3

\* At first the carts, the queues and the books are empty.
LEMMA TillStarts == Init => TillInv
<1> SUFFICES ASSUME Init PROVE TillInv
  OBVIOUS
<1>0. /\ Stock \in Nat /\ MaxQty \in Nat /\ MaxConfirm \in Nat /\ MaxPark \in Nat
  BY TillAssumption
<1>1. FreshPage \in Page
  BY <1>0 DEF FreshPage, Page, Bill
<1>2. NoLoop \in LoopState
  BY DEF NoLoop, LoopState
<1>3. TillTyped
  <2>1. server \in [sold : SUBSET Sale, refused : SUBSET Sale, held : SUBSET Parked,
                    stock : 0..Stock]
    BY <1>0 DEF Init
  <2>2. /\ page \in [Tills -> Page] /\ loop \in [Tills -> [Loops -> LoopState]]
        /\ queue \in [Tills -> Seq(Sale)] /\ call = {} /\ receipts = {} /\ unsure = {}
        /\ pressed \in [Shoppers -> 0..MaxConfirm] /\ parked \in [Shoppers -> 0..MaxPark]
    BY <1>0, <1>1, <1>2 DEF Init
  <2>3. QED
    BY <2>1, <2>2 DEF TillTyped
<1>4. /\ server.sold = {} /\ server.held = {} /\ server.stock = Stock
      /\ call = {} /\ receipts = {}
  BY DEF Init
<1>5. StockTold
  BY <1>0, <1>4, SumEmpty, FS_EmptySet DEF StockTold
<1>6. \A x : ~Queued(x) /\ ~ToPost(x)
  BY DEF Init, Queued, ToPost, NoLoop, ToSet
<1>7. SalesNumbered /\ PagePostsAlone /\ AnswersAreTrue /\ ReceiptsBacked
  BY <1>4, <1>6 DEF SalesNumbered, PagePostsAlone, AnswersAreTrue, ReceiptsBacked, Confirmed, Posted
<1>8. ParkedCounted /\ LoopsWait
  BY <1>4 DEF ParkedCounted, LoopsWait
<1>9. OnePlace
  <2>1. \A s \in Shoppers : CartsOf(s) = {}
    BY DEF Init, CartsOf, CartOf, FreshPage, NoCart
  <2>2. \A s \in Shoppers : HeldOf(s) = {} /\ ParkingOf(s) = {} /\ SalesOf(s) = {}
    BY <1>4, <1>6 DEF HeldOf, ParkingOf, SalesOf, Sells, Sending
  <2>3. QED
    BY <2>1, <2>2 DEF OnePlace, Places
<1>10. QED
  BY <1>3, <1>5, <1>7, <1>8, <1>9 DEF TillInv
-----------------------------------------------------------------------------
(* What most steps have in common *)

\* A call under way is one or the other, and its sale a sale.
LEMMA CallFields ==
  ASSUME TillTyped, NEW c \in call
  PROVE  /\ c \in CheckoutCall \/ c \in HoldCall
         /\ c.kind = "checkout" => c \in CheckoutCall /\ c.sale \in Sale
         /\ c.kind = "hold" => c \in HoldCall /\ c.sale.n \in 1..MaxPark /\ c.bill \in FullBill
         /\ c.kind \in {"checkout", "hold"} /\ c.by \in By
         /\ c.sale.of \in Shoppers /\ c.at \in {"sent", "stored", "refused"}
  BY DEF TillTyped, CheckoutCall, HoldCall, Sale, By

\* Nothing is sold or confirmed, and what goes is told where it went.
Lessens ==
  /\ server'.sold = server.sold /\ server'.stock = server.stock
  /\ server'.held \subseteq server.held
  /\ pressed' = pressed /\ parked' = parked
  /\ receipts' \subseteq receipts \cup server.sold
  /\ unsure \subseteq unsure'
  /\ \A x \in Sale : /\ Queued(x)' => Queued(x)
                     /\ Queued(x) => Queued(x)' \/ x \in server.sold
                     /\ ToPost(x)' => ToPost(x) \/ Queued(x)
  /\ \A c \in call' :
       c \in call \/ \E d \in call \ call' : d.at = "sent" /\ c = [d EXCEPT !.by = <<>>]

\* A call that is over emptied the cart of its page, or leaves its shopper unsure.
CallsDrop ==
  \A d \in call \ call' :
    /\ d.kind = "hold" /\ d.at = "sent" => d.sale.of \in unsure'
    /\ \A t \in Tills : d.by = <<t>> /\ d.at # "refused" =>
         d.sale.of \in unsure' \/ CartOf(t)'.of # {d.sale.of}

CartsDrop == \A t \in Tills, s \in Shoppers : CartOf(t)'.of = {s} => CartOf(t).of = {s}

\* An abandoned call is what it was, but for who waits for it.
LEMMA AbandonedFields ==
  ASSUME TillTyped, NEW d \in call
  PROVE  LET c == [d EXCEPT !.by = <<>>] IN
         /\ c.kind = d.kind /\ c.at = d.at /\ c.sale = d.sale /\ c.by = <<>>
         /\ d.kind = "hold" => c.bill = d.bill
         /\ c \in CheckoutCall \cup HoldCall
<1>1. CASE d \in CheckoutCall
  BY <1>1 DEF CheckoutCall, By
<1>2. CASE d \in HoldCall
  BY <1>2 DEF HoldCall
<1>3. QED
  BY <1>1, <1>2, CallFields

\* Where each call under way afterwards comes from.
LEMMA CallsFrom ==
  ASSUME TillTyped, Lessens, NEW c \in call'
  PROVE  \E d \in call : /\ c.kind = d.kind /\ c.at = d.at /\ c.sale = d.sale
                         /\ d.kind = "hold" => c.bill = d.bill
                         /\ \/ c = d
                            \/ c.by = <<>> /\ d \notin call' /\ d.at = "sent"
<1>1. CASE c \in call
  BY <1>1
<1>2. CASE \E d \in call \ call' : d.at = "sent" /\ c = [d EXCEPT !.by = <<>>]
  BY <1>2, AbandonedFields
<1>3. QED
  BY <1>1, <1>2 DEF Lessens

\* Nothing is confirmed that was not confirmed before.
LEMMA ConfirmedLess ==
  ASSUME TillTyped, Lessens, NEW x \in Sale, Confirmed(x)'
  PROVE  Confirmed(x)
<1>1. x \in server'.sold \/ x \in receipts' => Confirmed(x)
  BY DEF Lessens, Confirmed
<1>2. Queued(x)' \/ ToPost(x)' => Confirmed(x)
  BY DEF Lessens, Confirmed
<1>3. Posted(x)' => Confirmed(x)
  BY CallsFrom DEF Posted, Confirmed
<1>4. QED
  BY <1>1, <1>2, <1>3 DEF Confirmed

\* The books stay in order while nothing is sold or confirmed.
LEMMA LessKeeps ==
  ASSUME TillInv, Lessens
  PROVE  /\ StockTold' /\ SalesNumbered' /\ PagePostsAlone' /\ AnswersAreTrue'
         /\ ReceiptsBacked' /\ ParkedCounted'
<1> USE DEF TillInv
<1>1. StockTold'
  BY DEF StockTold, Lessens
<1>2. SalesNumbered'
  BY ConfirmedLess DEF SalesNumbered, Lessens
<1>3. PagePostsAlone'
  <2> SUFFICES ASSUME NEW c \in call', c.kind = "checkout", c.by \in ByPage
               PROVE  /\ ~Queued(c.sale)' /\ ~ToPost(c.sale)'
                      /\ \A d \in call' : d.kind = "checkout" /\ d.sale = c.sale => d = c
    BY DEF PagePostsAlone
  <2>1. c.by # <<>>
    BY ByApart DEF ByPage
  <2>2. c \in call
    BY <2>1, CallsFrom
  <2>3. /\ ~Queued(c.sale) /\ ~ToPost(c.sale) /\ c.sale \in Sale
        /\ \A d \in call : d.kind = "checkout" /\ d.sale = c.sale => d = c
    BY <2>2, CallFields DEF PagePostsAlone
  <2>4. ASSUME NEW x \in Sale, x = c.sale PROVE ~Queued(x)' /\ ~ToPost(x)'
    BY <2>3, <2>4 DEF Lessens
  <2>5. ASSUME NEW d \in call', d.kind = "checkout", d.sale = c.sale PROVE d = c
    BY <2>2, <2>3, <2>5, CallsFrom
  <2>6. QED
    BY <2>3, <2>4, <2>5
<1>4. AnswersAreTrue'
  BY CallsFrom DEF AnswersAreTrue, Lessens
<1>5. ReceiptsBacked'
  <2>1. \A r \in receipts' : r \in server.sold \/ (r \in Sale /\ Queued(r))
    BY DEF ReceiptsBacked, Lessens, TillTyped
  <2>2. QED
    BY <2>1 DEF ReceiptsBacked, Lessens
<1>6. ParkedCounted'
  <2>1. \A c \in call' : c.kind = "hold" => parked'[c.sale.of] >= 1 /\ c.bill.of = {c.sale.of}
    BY CallsFrom DEF ParkedCounted, Lessens
  <2>2. QED
    BY <2>1 DEF ParkedCounted, Lessens
<1>7. QED
  BY <1>1, <1>2, <1>3, <1>4, <1>5, <1>6

\* The four kinds of places.
LEMMA PlacesFewer ==
  ASSUME NEW s, CartsOf(s)' \subseteq CartsOf(s), HeldOf(s)' \subseteq HeldOf(s),
         ParkingOf(s)' \subseteq ParkingOf(s), SalesOf(s)' \subseteq SalesOf(s)
  PROVE  Places(s)' \subseteq Places(s)
  BY DEF Places

\* Only what is parked, or on the way there, or sold, or on the way there, is anywhere else.
LEMMA LessPlaces ==
  ASSUME TillTyped, Lessens, CallsDrop, NEW s \in Shoppers \ unsure'
  PROVE  /\ HeldOf(s)' \subseteq HeldOf(s) /\ ParkingOf(s)' \subseteq ParkingOf(s)
         /\ SalesOf(s)' \subseteq SalesOf(s)
         /\ \A t \in Tills : CartOf(t)'.of = {s} /\ Clearing(t, s) => Clearing(t, s)'
<1>1. HeldOf(s)' \subseteq HeldOf(s)
  BY DEF HeldOf, Lessens
<1>2. ParkingOf(s)' \subseteq ParkingOf(s)
  <2> SUFFICES ASSUME NEW c \in call', c.kind = "hold", c.at = "sent", c.sale.of = s
               PROVE  c \in call
    BY DEF ParkingOf
  <2>1. PICK d \in call : /\ c.kind = d.kind /\ c.at = d.at /\ c.sale = d.sale
                          /\ c = d \/ d \notin call'
    BY CallsFrom
  <2>2. QED
    BY <2>1 DEF CallsDrop
<1>3. SalesOf(s)' \subseteq SalesOf(s)
  <2> SUFFICES ASSUME NEW x \in Sale, Sells(x)' PROVE Sells(x)
    BY DEF SalesOf
  <2>1. Sending(x)' => Sending(x)
    BY CallsFrom DEF Sending
  <2>2. QED
    BY <2>1 DEF Sells, Lessens
<1>4. ASSUME NEW t \in Tills, CartOf(t)'.of = {s}, Clearing(t, s) PROVE Clearing(t, s)'
  <2>1. PICK c \in call : c.by = <<t>> /\ c.sale.of = s /\ c.at # "refused"
    BY <1>4 DEF Clearing
  <2>2. c \in call'
    BY <1>4, <2>1 DEF CallsDrop
  <2>3. QED
    BY <2>1, <2>2 DEF Clearing
<1>5. QED
  BY <1>1, <1>2, <1>3, <1>4

\* Where goods are taken away from a place and brought to none, they stay apart.
LEMMA LessOnePlace ==
  ASSUME TillTyped, Lessens, CallsDrop, CartsDrop, OnePlace
  PROVE  OnePlace'
<1>1. ASSUME NEW s \in Shoppers \ unsure' PROVE Places(s)' \subseteq Places(s)
  <2>1. CartsOf(s)' \subseteq CartsOf(s)
    BY LessPlaces DEF CartsOf, CartsDrop
  <2>2. QED
    BY <2>1, LessPlaces, PlacesFewer
<1>2. \A s \in Shoppers \ unsure' : s \in Shoppers \ unsure
  BY DEF Lessens
<1>3. QED
  BY <1>1, <1>2 DEF OnePlace

\* The goods of a shopper that go from one place to another are then in that one only.
LEMMA PlaceMoves ==
  ASSUME OnePlace, NEW s \in Shoppers \ unsure, NEW p0, NEW p1,
         p0 \in Places(s) \/ Places(s) = {},
         \A q \in Places(s)' : q = p1 \/ (q \in Places(s) /\ q # p0)
  PROVE  \A p, q \in Places(s)' : p = q
<1>1. \A q \in Places(s)' : q = p1
  BY DEF OnePlace
<1>2. QED
  BY <1>1
-----------------------------------------------------------------------------
(* The cart *)

\* One page is set and the others stay.
LEMMA PageSet ==
  ASSUME TillTyped, NEW t \in Tills, NEW p \in Page, page' = [page EXCEPT ![t] = p]
  PROVE  /\ page' \in [Tills -> Page]
         /\ CartOf(t)' = p.cart /\ \A u \in Tills \ {t} : CartOf(u)' = CartOf(u)
  BY DEF TillTyped, CartOf

\* What a page shows.
LEMMA PageFields ==
  ASSUME TillTyped, NEW t \in Tills
  PROVE  /\ page[t] \in Page /\ page[t].cart = CartOf(t) /\ CartOf(t) \in Bill
         /\ page[t].known \in 0..Stock
         /\ CartOf(t) # NoCart => CartOf(t) \in FullBill
         /\ NoCart \in Bill /\ NoCart.of = {}
  BY DEF TillTyped, CartOf, Page, Bill, FullBill, NoCart

\* A full cart is somebody's.
LEMMA CartOwner ==
  ASSUME TillTyped, NEW c \in FullBill
  PROVE  /\ Owner(c) \in Shoppers /\ c.of = {Owner(c)} /\ c # NoCart
         /\ c.qty \in 1..(MaxQty + 1) /\ c.left \in 0..Stock
<1>1. PICK s \in Shoppers : c.of = {s}
  BY DEF FullBill
<1>2. Owner(c) = s
  BY <1>1 DEF Owner
<1>3. QED
  BY <1>1, <1>2 DEF FullBill, NoCart

\* What changes pages only, and opens no cart, keeps everything.
LEMMA PageOnly ==
  ASSUME TillInv, page' \in [Tills -> Page],
         UNCHANGED <<queue, loop, call, server, receipts, pressed, parked>>,
         unsure' = unsure
  PROVE  /\ TillTyped' /\ Lessens /\ CallsDrop /\ LoopsWait'
         /\ StockTold' /\ SalesNumbered' /\ PagePostsAlone' /\ AnswersAreTrue'
         /\ ReceiptsBacked' /\ ParkedCounted'
<1>1. TillTyped'
  BY DEF TillInv, TillTyped
<1>2. Lessens /\ CallsDrop /\ LoopsWait'
  BY DEF Lessens, CallsDrop, Queued, ToPost, TillInv, LoopsWait, OfLoop
<1>3. QED
  BY <1>1, <1>2, LessKeeps

\* The first unit opens a cart for a shopper who was nowhere yet.
LEMMA CartGrows ==
  ASSUME TillInv, NEW t \in Tills, NEW s \in Shoppers, Joins(t, s), NEW stock \in 0..Stock,
         page' \in [Tills -> Page], CartOf(t)' = WithOneMore(CartOf(t), s, stock),
         \A u \in Tills \ {t} : CartOf(u)' = CartOf(u),
         UNCHANGED <<queue, loop, call, server, receipts, pressed, parked, unsure>>
  PROVE  TillInv'
<1> USE DEF TillInv
<1>1. /\ TillTyped' /\ Lessens /\ CallsDrop /\ LoopsWait'
      /\ StockTold' /\ SalesNumbered' /\ PagePostsAlone' /\ AnswersAreTrue'
      /\ ReceiptsBacked' /\ ParkedCounted'
  BY PageOnly
<1>2. CartOf(t)'.of = {s}
  BY DEF WithOneMore
<1>3. ASSUME NEW r \in Shoppers \ unsure' PROVE \A p, q \in Places(r)' : p = q
  <2>1. /\ HeldOf(r)' \subseteq HeldOf(r) /\ ParkingOf(r)' \subseteq ParkingOf(r)
        /\ SalesOf(r)' \subseteq SalesOf(r)
        /\ \A u \in Tills : CartOf(u)'.of = {r} /\ Clearing(u, r) => Clearing(u, r)'
    BY <1>1, LessPlaces
  <2>2. r \in Shoppers \ unsure
    OBVIOUS
  <2>3. CASE r # s \/ CartOf(t).of = {s}
    <3>1. CartsOf(r)' \subseteq CartsOf(r)
      BY <1>2, <2>1, <2>3 DEF CartsOf
    <3>2. Places(r)' \subseteq Places(r)
      BY <2>1, <3>1, PlacesFewer
    <3>3. QED
      BY <2>2, <3>2 DEF OnePlace
  <2>4. CASE r = s /\ CartOf(t).of # {s}
    <3>1. /\ pressed[s] = 0 /\ parked[s] = 0 /\ s \in Shoppers
          /\ \A u \in Tills : s \notin CartOf(u).of
      BY <2>4 DEF Joins, Waiting
    <3>2. CartsOf(s) = {}
      BY <3>1 DEF CartsOf
    <3>3. HeldOf(s) = {} /\ ParkingOf(s) = {}
      BY <3>1 DEF HeldOf, ParkingOf, ParkedCounted
    <3>4. SalesOf(s) = {}
      <4> SUFFICES ASSUME NEW x \in Sale, x.of = s, Sells(x) PROVE FALSE
        BY DEF SalesOf
      <4>1. Confirmed(x)
        BY DEF Sells, Sending, Confirmed, Posted
      <4>2. x.n <= 0 /\ x.n \in 1..MaxConfirm
        BY <3>1, <4>1 DEF SalesNumbered, Sale
      <4>3. QED
        BY <4>2, TillAssumption
    <3>5. Places(s) = {}
      BY <3>2, <3>3, <3>4 DEF Places
    <3>6. CartsOf(s)' \subseteq {t}
      BY <3>1 DEF CartsOf
    <3>7. \A q \in Places(s)' : q = <<"cart", t>>
      BY <2>1, <2>4, <3>3, <3>4, <3>6 DEF Places
    <3>8. QED
      BY <2>4, <3>7
  <2>5. QED
    BY <2>3, <2>4
<1>4. OnePlace'
  BY <1>3 DEF OnePlace
<1>5. QED
  BY <1>1, <1>4

\* A step that only takes away, and keeps the types, keeps the invariant.
LEMMA LessStep ==
  ASSUME TillInv, TillTyped', Lessens, CallsDrop, CartsDrop, LoopsWait'
  PROVE  TillInv'
  BY LessKeeps, LessOnePlace DEF TillInv

\* A cart with one more unit is within the bounds.
LEMMA GrownCart ==
  ASSUME TillTyped, NEW t \in Tills, NEW s \in Shoppers, Joins(t, s), NEW stock \in 0..Stock
  PROVE  WithOneMore(CartOf(t), s, stock) \in FullBill
<1> DEFINE c == CartOf(t)
<1>1. MaxQty \in Nat
  BY TillAssumption
<1>2. c \in Bill
  BY PageFields
<1>3. CASE c = NoCart
  BY <1>1, <1>3 DEF WithOneMore, FullBill, NoCart
<1>4. CASE c # NoCart
  <2>1. c.qty < MaxQty
    BY <1>4 DEF Joins
  <2>2. c.qty \in 1..(MaxQty + 1) /\ c.left \in 0..Stock
    BY <1>2, <1>4 DEF Bill
  <2>3. c.qty + 1 \in 1..(MaxQty + 1)
    BY <1>1, <2>1, <2>2
  <2>4. QED
    BY <1>4, <2>2, <2>3 DEF WithOneMore, FullBill
<1>5. QED
  BY <1>3, <1>4

\* What a page shows after a field of it is set.
LEMMA PageWith ==
  ASSUME TillTyped, NEW t \in Tills, NEW c \in Bill, NEW k \in 0..Stock
  PROVE  /\ [page[t] EXCEPT !.cart = c] \in Page
         /\ [page[t] EXCEPT !.cart = c].cart = c
         /\ [page[t] EXCEPT !.known = k] \in Page
         /\ [page[t] EXCEPT !.known = k].cart = CartOf(t)
  BY DEF TillTyped, Page, CartOf

\* The page knows a stock there was, and the cart is the shopper's or new.
LEMMA AddToCartKeeps ==
  ASSUME TillInv, NEW t \in Tills, NEW s \in Shoppers, AddToCart(t, s)
  PROVE  TillInv'
<1> USE DEF TillInv
<1> DEFINE c == WithOneMore(CartOf(t), s, page[t].known)
           p == [page[t] EXCEPT !.cart = c]
<1>1. page[t].known \in 0..Stock
  BY PageFields
<1>2. c \in FullBill
  BY <1>1, GrownCart DEF AddToCart
<1>3. p \in Page /\ p.cart = c
  BY <1>1, <1>2, PageWith DEF Bill, FullBill
<1>4. page' = [page EXCEPT ![t] = p]
  BY DEF AddToCart, CartOf
<1> HIDE DEF p
<1>5. /\ page' \in [Tills -> Page]
      /\ CartOf(t)' = c /\ \A u \in Tills \ {t} : CartOf(u)' = CartOf(u)
  BY <1>3, <1>4, PageSet
<1>6. QED
  BY <1>1, <1>5, CartGrows DEF AddToCart

\* The same with the stock the server answers.
LEMMA ScanBarcodeKeeps ==
  ASSUME TillInv, NEW t \in Tills, NEW s \in Shoppers, ScanBarcode(t, s)
  PROVE  TillInv'
<1> USE DEF TillInv
<1> DEFINE c == WithOneMore(CartOf(t), s, server.stock)
           p == [page[t] EXCEPT !.cart = c, !.known = server.stock]
<1>1. server.stock \in 0..Stock
  BY DEF TillTyped
<1>2. c \in FullBill
  BY <1>1, GrownCart DEF ScanBarcode
<1>3. p \in Page /\ p.cart = c
  <2>1. c \in Bill
    BY <1>2 DEF Bill, FullBill
  <2> HIDE DEF c
  <2>2. page[t] \in Page
    BY DEF TillTyped
  <2>3. QED
    BY <1>1, <2>1, <2>2 DEF Page
<1>4. page' = [page EXCEPT ![t] = p]
  <2>1. page \in [Tills -> Page] /\ t \in Tills
    BY DEF TillTyped
  <2>2. page' = [page EXCEPT ![t].cart = c, ![t].known = server.stock]
    BY DEF ScanBarcode, CartOf
  <2> HIDE DEF c
  <2>3. QED
    BY <2>1, <2>2 DEF Page
<1> HIDE DEF p
<1>5. /\ page' \in [Tills -> Page]
      /\ CartOf(t)' = c /\ \A u \in Tills \ {t} : CartOf(u)' = CartOf(u)
  BY <1>3, <1>4, PageSet
<1>6. QED
  BY <1>1, <1>5, CartGrows DEF ScanBarcode

\* Every page shows a cart, the same as before or none.
LEMMA PageKeeps ==
  ASSUME TillInv, NEW t \in Tills, NEW p \in Page, page' = [page EXCEPT ![t] = p],
         p.cart = NoCart \/ p.cart.of = CartOf(t).of
  PROVE  page' \in [Tills -> Page] /\ CartsDrop
<1>1. /\ page' \in [Tills -> Page]
      /\ CartOf(t)' = p.cart /\ \A u \in Tills \ {t} : CartOf(u)' = CartOf(u)
  BY PageSet DEF TillInv
<1>2. CartsDrop
  BY <1>1 DEF CartsDrop, NoCart
<1>3. QED
  BY <1>1, <1>2

\* The cart stays the shopper's, or is emptied.
LEMMA UpdateQuantityKeeps ==
  ASSUME TillInv, NEW t \in Tills, NEW q \in 0..MaxQty + 1, UpdateQuantity(t, q)
  PROVE  TillInv'
<1> USE DEF TillInv
<1> DEFINE c == CartOf(t)
           d == IF q = 0 THEN NoCart ELSE [c EXCEPT !.qty = Capped(c, q)]
           p == [page[t] EXCEPT !.cart = d]
<1>1. c \in FullBill /\ MaxQty \in Nat
  BY PageFields, TillAssumption DEF UpdateQuantity
<1>2. d \in Bill /\ (d = NoCart \/ d.of = c.of)
  <2>1. CASE q = 0
    BY <2>1 DEF Bill
  <2>2. CASE q # 0
    <3>1. Capped(c, q) \in 1..(MaxQty + 1)
      <4>1. c.left \in Nat /\ q \in 1..(MaxQty + 1)
        BY <1>1, <2>2, TillAssumption DEF FullBill
      <4>2. QED
        BY <1>1, <4>1 DEF Capped
    <3>2. QED
      BY <1>1, <2>2, <3>1 DEF FullBill, Bill
  <2>3. QED
    BY <2>1, <2>2
<1>3. page[t].known \in 0..Stock
  BY PageFields
<1>4. p \in Page /\ p.cart = d
  BY <1>2, <1>3, PageWith
<1>5. page' = [page EXCEPT ![t] = p]
  BY DEF UpdateQuantity, CartOf
<1> HIDE DEF p, d
<1>6. page' \in [Tills -> Page] /\ CartsDrop
  BY <1>2, <1>4, <1>5, PageKeeps
<1>7. TillTyped' /\ Lessens /\ CallsDrop /\ LoopsWait'
  BY <1>6, PageOnly DEF UpdateQuantity
<1>8. QED
  BY <1>6, <1>7, LessStep

\* Only what the page knows of the stock changes.
LEMMA FetchProductsKeeps ==
  ASSUME TillInv, NEW t \in Tills, FetchProducts(t)
  PROVE  TillInv'
<1> USE DEF TillInv
<1> DEFINE p == [page[t] EXCEPT !.known = server.stock]
<1>1. server.stock \in 0..Stock /\ CartOf(t) \in Bill
  BY PageFields DEF TillTyped
<1>2. p \in Page /\ p.cart = CartOf(t)
  BY <1>1, PageWith
<1>3. page' = [page EXCEPT ![t] = p]
  BY DEF FetchProducts
<1> HIDE DEF p
<1>4. page' \in [Tills -> Page] /\ CartsDrop
  BY <1>2, <1>3, PageKeeps
<1>5. TillTyped' /\ Lessens /\ CallsDrop /\ LoopsWait'
  BY <1>4, PageOnly DEF FetchProducts
<1>6. QED
  BY <1>4, <1>5, LessStep

\* The flags of a page.
LEMMA PageFlags ==
  ASSUME TillTyped, NEW t \in Tills, NEW b \in BOOLEAN, NEW d \in BOOLEAN
  PROVE  /\ [page[t] EXCEPT !.offline = b] \in Page
         /\ [page[t] EXCEPT !.offline = b].cart = CartOf(t)
         /\ [page[t] EXCEPT !.busy = b] \in Page
         /\ [page[t] EXCEPT !.busy = b].cart = CartOf(t)
         /\ [page[t] EXCEPT !.syncing = b] \in Page
         /\ [page[t] EXCEPT !.syncing = b].cart = CartOf(t)
         /\ [page[t] EXCEPT !.offline = b, !.syncing = d] \in Page
         /\ [page[t] EXCEPT !.offline = b, !.syncing = d].cart = CartOf(t)
         /\ [page[t] EXCEPT !.cart = NoCart, !.busy = b] \in Page
         /\ [page[t] EXCEPT !.cart = NoCart, !.busy = b].cart = NoCart
  BY DEF TillTyped, Page, CartOf, Bill

\* Only a flag changes.
LEMMA GoOfflineKeeps ==
  ASSUME TillInv, NEW t \in Tills, GoOffline(t)
  PROVE  TillInv'
<1> USE DEF TillInv
<1> DEFINE p == [page[t] EXCEPT !.offline = TRUE]
<1>1. p \in Page /\ p.cart = CartOf(t) /\ page' = [page EXCEPT ![t] = p]
  BY PageFlags DEF GoOffline
<1> HIDE DEF p
<1>2. page' \in [Tills -> Page] /\ CartsDrop
  BY <1>1, PageKeeps
<1>3. TillTyped' /\ Lessens /\ CallsDrop /\ LoopsWait'
  BY <1>2, PageOnly DEF GoOffline
<1>4. QED
  BY <1>2, <1>3, LessStep
-----------------------------------------------------------------------------
(* The loops *)

\* One loop of a page is set; what it has to post was in the queue or to be posted already.
LEMMA LoopSet ==
  ASSUME TillTyped, NEW t \in Tills, NEW l \in Loops, NEW r \in LoopState,
         loop' = [loop EXCEPT ![t][l] = r],
         ToSet(r.todo) \subseteq ToSet(loop[t][l].todo) \cup ToSet(queue[t])
  PROVE  /\ loop' \in [Tills -> [Loops -> LoopState]]
         /\ \A x : ToPost(x)' => ToPost(x) \/ Queued(x)
         /\ loop'[t][l] = r
         /\ \A u \in Tills, m \in Loops : loop'[u][m] = loop[u][m] \/ (u = t /\ m = l)
<1>1. loop' \in [Tills -> [Loops -> LoopState]]
  BY DEF TillTyped
<1>2. loop'[t][l] = r
  BY DEF TillTyped
<1>3. \A u \in Tills, m \in Loops : loop'[u][m] = loop[u][m] \/ (u = t /\ m = l)
  BY DEF TillTyped
<1>4. ASSUME NEW x, NEW u \in Tills, NEW m \in Loops, x \in ToSet(loop'[u][m].todo)
      PROVE  ToPost(x) \/ Queued(x)
  BY <1>2, <1>3, <1>4 DEF ToPost, Queued
<1>5. QED
  BY <1>1, <1>2, <1>3, <1>4 DEF ToPost

\* Loops wait on as they did when no call is sent, and those that change waited for none.
LEMMA LoopsWaitOn ==
  ASSUME TillTyped, LoopsWait,
         \A c \in call' : c \in call \/ c.by = <<>>,
         \A t \in Tills, l \in Loops :
           loop'[t][l] = loop[t][l] \/ \A c \in call' : ~OfLoop(t, l, c)
  PROVE  LoopsWait'
<1> SUFFICES ASSUME NEW t \in Tills, NEW l \in Loops, NEW c \in call', OfLoop(t, l, c)
             PROVE  /\ loop'[t][l].on /\ loop'[t][l].todo # <<>>
                    /\ \A d \in call' : OfLoop(t, l, d) => d = c
  BY DEF LoopsWait, OfLoop
<1>1. <<t, l>> # <<>>
  BY ByApart
<1>2. \A d \in call' : OfLoop(t, l, d) => d \in call
  BY <1>1 DEF OfLoop
<1>3. loop'[t][l] = loop[t][l]
  OBVIOUS
<1>4. QED
  BY <1>2, <1>3 DEF LoopsWait

\* What changes pages and loops only, opens no cart and finds no new sale to post.
LEMMA LoopOnly ==
  ASSUME TillInv, page' \in [Tills -> Page], CartsDrop,
         loop' \in [Tills -> [Loops -> LoopState]],
         \A x : ToPost(x)' => ToPost(x) \/ Queued(x),
         \A t \in Tills, l \in Loops :
           loop'[t][l] = loop[t][l] \/ \A c \in call : ~OfLoop(t, l, c),
         UNCHANGED <<queue, call, server, receipts, pressed, parked, unsure>>
  PROVE  TillInv'
<1>1. TillTyped'
  BY DEF TillInv, TillTyped
<1>2. Lessens /\ CallsDrop
  BY DEF Lessens, CallsDrop, Queued
<1>3. LoopsWait'
  BY LoopsWaitOn DEF TillInv, OfLoop
<1>4. QED
  BY <1>1, <1>2, <1>3, LessStep

\* A loop starts with what is in the queue.
LEMMA StartedLoop ==
  ASSUME TillInv, NEW t \in Tills, NEW l \in Loops, ~loop[t][l].on, Start(t, l)
  PROVE  /\ loop' \in [Tills -> [Loops -> LoopState]]
         /\ \A x : ToPost(x)' => ToPost(x) \/ Queued(x)
         /\ \A u \in Tills, m \in Loops :
              loop'[u][m] = loop[u][m] \/ \A c \in call : ~OfLoop(u, m, c)
<1> USE DEF TillInv
<1> DEFINE r == [on |-> TRUE, todo |-> queue[t]]
<1>1. r \in LoopState /\ r.todo = queue[t]
  BY DEF TillTyped, LoopState
<1>2. loop' = [loop EXCEPT ![t][l] = r]
  BY DEF Start
<1> HIDE DEF r
<1>3. \A c \in call : ~OfLoop(t, l, c)
  BY DEF LoopsWait
<1>4. /\ loop' \in [Tills -> [Loops -> LoopState]]
      /\ \A x : ToPost(x)' => ToPost(x) \/ Queued(x)
      /\ \A u \in Tills, m \in Loops : loop'[u][m] = loop[u][m] \/ (u = t /\ m = l)
  BY <1>1, <1>2, LoopSet
<1>5. QED
  BY <1>3, <1>4 DEF OfLoop

\* A flag changes, and a loop that did not run starts with the queue, if there is one.
LEMMA GoOnlineKeeps ==
  ASSUME TillInv, NEW t \in Tills, GoOnline(t)
  PROVE  TillInv'
<1> DEFINE p == [page[t] EXCEPT !.offline = FALSE, !.syncing = TRUE]
<1>1. p \in Page /\ p.cart = CartOf(t)
  BY PageFlags DEF TillInv
<1>2. page' = [page EXCEPT ![t] = p]
  <2>1. page \in [Tills -> Page]
    BY DEF TillInv, TillTyped
  <2>2. page' = [page EXCEPT ![t].offline = FALSE, ![t].syncing = TRUE]
    BY DEF GoOnline
  <2>3. QED
    BY <2>1, <2>2 DEF Page
<1> HIDE DEF p
<1>3. page' \in [Tills -> Page] /\ CartsDrop
  BY <1>1, <1>2, PageKeeps
<1>4. /\ loop' \in [Tills -> [Loops -> LoopState]]
      /\ \A x : ToPost(x)' => ToPost(x) \/ Queued(x)
      /\ \A u \in Tills, m \in Loops :
           loop'[u][m] = loop[u][m] \/ \A c \in call : ~OfLoop(u, m, c)
  <2>1. CASE loop' = loop
    BY <2>1 DEF TillInv, TillTyped, ToPost
  <2>2. CASE \E l \in Loops : ~loop[t][l].on /\ Start(t, l)
    BY <2>2, StartedLoop
  <2>3. QED
    BY <2>1, <2>2 DEF GoOnline
<1>5. QED
  BY <1>3, <1>4, LoopOnly DEF GoOnline

\* The same at the press of the button.
LEMMA SyncPendingKeeps ==
  ASSUME TillInv, NEW t \in Tills, SyncPending(t)
  PROVE  TillInv'
<1> DEFINE p == [page[t] EXCEPT !.syncing = TRUE]
<1>1. p \in Page /\ p.cart = CartOf(t) /\ page' = [page EXCEPT ![t] = p]
  BY PageFlags DEF TillInv, SyncPending
<1> HIDE DEF p
<1>2. page' \in [Tills -> Page] /\ CartsDrop
  BY <1>1, PageKeeps
<1>3. /\ loop' \in [Tills -> [Loops -> LoopState]]
      /\ \A x : ToPost(x)' => ToPost(x) \/ Queued(x)
      /\ \A u \in Tills, m \in Loops :
           loop'[u][m] = loop[u][m] \/ \A c \in call : ~OfLoop(u, m, c)
  BY StartedLoop, SMTT(30) DEF SyncPending
<1>4. QED
  BY <1>2, <1>3, LoopOnly DEF SyncPending

\* A loop with nothing left to post waits for no call.
LEMMA EndLoopKeeps ==
  ASSUME TillInv, NEW t \in Tills, NEW l \in Loops, EndLoop(t, l)
  PROVE  TillInv'
<1> DEFINE p == [page[t] EXCEPT !.syncing = FALSE]
<1>1. p \in Page /\ p.cart = CartOf(t) /\ page' = [page EXCEPT ![t] = p]
  BY PageFlags DEF TillInv, EndLoop
<1> HIDE DEF p
<1>2. page' \in [Tills -> Page] /\ CartsDrop
  BY <1>1, PageKeeps
<1>3. NoLoop \in LoopState /\ ToSet(NoLoop.todo) = {}
  BY DEF NoLoop, LoopState, ToSet
<1>4. /\ loop' \in [Tills -> [Loops -> LoopState]]
      /\ \A x : ToPost(x)' => ToPost(x) \/ Queued(x)
      /\ \A u \in Tills, m \in Loops :
           loop'[u][m] = loop[u][m] \/ \A c \in call : ~OfLoop(u, m, c)
  <2>1. /\ loop' \in [Tills -> [Loops -> LoopState]]
        /\ \A x : ToPost(x)' => ToPost(x) \/ Queued(x)
        /\ \A u \in Tills, m \in Loops : loop'[u][m] = loop[u][m] \/ (u = t /\ m = l)
    BY <1>3, LoopSet DEF TillInv, EndLoop
  <2>2. \A c \in call : ~OfLoop(t, l, c)
    BY DEF TillInv, EndLoop, LoopsWait
  <2>3. QED
    BY <2>1, <2>2 DEF OfLoop
<1>5. QED
  BY <1>2, <1>4, LoopOnly DEF EndLoop
-----------------------------------------------------------------------------
(* Answers, and calls nobody waits for any more *)

\* A call that is over is gone, or left to the server.
LEMMA CallOver ==
  ASSUME TillTyped, NEW c \in call, c.by # <<>>, NEW rest \in Abandoned(c),
         call' = (call \ {c}) \cup rest
  PROVE  /\ call' \subseteq CheckoutCall \cup HoldCall
         /\ call \ call' \subseteq {c}
         /\ \A d \in call' : \/ d \in call \ {c}
                             \/ /\ c \in call \ call' /\ c.at = "sent"
                                /\ d = [c EXCEPT !.by = <<>>] /\ d.by = <<>>
<1> DEFINE e == [c EXCEPT !.by = <<>>]
<1>1. e.by = <<>> /\ e \in CheckoutCall \cup HoldCall
  BY AbandonedFields
<1>2. rest = {} \/ (rest = {e} /\ c.at = "sent")
  BY DEF Abandoned
<1> HIDE DEF e
<1>3. c \notin call'
  BY <1>1, <1>2
<1>4. call \subseteq CheckoutCall \cup HoldCall
  BY DEF TillTyped
<1>5. call' \subseteq CheckoutCall \cup HoldCall
  BY <1>1, <1>2, <1>4
<1>6. \A d \in call' : d \in call \ {c} \/ (d = e /\ c.at = "sent")
  BY <1>2
<1>7. QED
  BY <1>1, <1>3, <1>5, <1>6 DEF e

\* Who waits for a call, told by what it is.
LEMMA CallWaiters ==
  ASSUME TillTyped, NEW c \in call
  PROVE  /\ \A t, l : c.by = <<t, l>> =>
              c.by # <<>> /\ c \in CheckoutCall /\ c.kind = "checkout" /\ \A u : c.by # <<u>>
         /\ \A t : c.by = <<t>> => c.by # <<>>
<1>1. \A t : <<t>> # <<>>
  BY ByApart
<1>2. ASSUME NEW t, NEW l, c.by = <<t, l>>
      PROVE  c.by # <<>> /\ c \in CheckoutCall /\ c.kind = "checkout" /\ \A u : c.by # <<u>>
  <2>1. c.by # <<>> /\ \A u : c.by # <<u>>
    BY <1>2, ByApart
  <2>2. c \notin HoldCall
    BY <2>1 DEF HoldCall, ByPage
  <2>3. c \in CheckoutCall
    BY <2>2, CallFields
  <2>4. QED
    BY <2>1, <2>3 DEF CheckoutCall
<1>3. QED
  BY <1>1, <1>2

\* A call of a page is over: the cart is empty then, or the shopper unsure, or it was refused.
LEMMA PageCallOver ==
  ASSUME TillInv, NEW t \in Tills, NEW c \in call, c.by = <<t>>, NEW rest \in Abandoned(c),
         call' = (call \ {c}) \cup rest,
         page' \in [Tills -> Page], CartsDrop,
         unsure' \subseteq Shoppers, unsure \subseteq unsure',
         \/ c.sale.of \in unsure'
         \/ CartOf(t)' = NoCart /\ (c.kind = "hold" => c.at # "sent")
         \/ c.at = "refused",
         receipts' \subseteq receipts \cup (server.sold \cap Sale),
         UNCHANGED <<queue, loop, server, pressed, parked>>
  PROVE  TillInv'
<1> USE DEF TillInv
<1>1. c.by # <<>> /\ \A u : c.by = <<u>> => u = t
  BY ByApart
<1>2. /\ call' \subseteq CheckoutCall \cup HoldCall
      /\ call \ call' \subseteq {c}
      /\ \A d \in call' : \/ d \in call \ {c}
                          \/ /\ c \in call \ call' /\ c.at = "sent"
                             /\ d = [c EXCEPT !.by = <<>>] /\ d.by = <<>>
  BY <1>1, CallOver
<1>3. TillTyped'
  BY <1>2 DEF TillTyped
<1>4. Lessens
  BY <1>2 DEF Lessens, Queued, ToPost
<1>5. CallsDrop
  <2> SUFFICES /\ c.kind = "hold" /\ c.at = "sent" => c.sale.of \in unsure'
               /\ \A u \in Tills : c.by = <<u>> /\ c.at # "refused" =>
                    c.sale.of \in unsure' \/ CartOf(u)'.of # {c.sale.of}
    BY <1>2 DEF CallsDrop
  <2>1. CartOf(t)' = NoCart => CartOf(t)'.of # {c.sale.of}
    BY DEF NoCart
  <2>2. \A u \in Tills : c.by = <<u>> => CartOf(u)' = CartOf(t)'
    BY <1>1
  <2>3. QED
    BY <2>1, <2>2
<1>6. LoopsWait'
  BY <1>2, LoopsWaitOn
<1>7. QED
  BY <1>3, <1>4, <1>5, <1>6, LessStep

\* A stored sale is sold, so its receipt is backed; a refused one leaves the cart.
LEMMA CheckoutAnsweredKeeps ==
  ASSUME TillInv, NEW t \in Tills, NEW c \in call, CheckoutAnswered(t, c)
  PROVE  TillInv'
<1> USE DEF TillInv
<1>1. c.by = <<t>> /\ c.kind = "checkout" /\ {} \in Abandoned(c) /\ call' = (call \ {c}) \cup {}
  BY DEF CheckoutAnswered, OfPage, Abandoned
<1>2. CASE c.at = "stored"
  <2> DEFINE p == [page[t] EXCEPT !.cart = NoCart, !.busy = FALSE]
  <2>1. p \in Page /\ p.cart = NoCart
    BY PageFlags
  <2>2. page' = [page EXCEPT ![t] = p]
    <3>1. page \in [Tills -> Page]
      BY DEF TillTyped
    <3>2. page' = [page EXCEPT ![t].cart = NoCart, ![t].busy = FALSE]
      BY <1>2 DEF CheckoutAnswered
    <3>3. QED
      BY <3>1, <3>2 DEF Page
  <2> HIDE DEF p
  <2>3. page' \in [Tills -> Page] /\ CartsDrop /\ CartOf(t)' = NoCart
    BY <2>1, <2>2, PageKeeps, PageSet
  <2>4. c.sale \in server.sold \cap Sale
    BY <1>1, <1>2, CallFields DEF AnswersAreTrue
  <2>5. receipts' \subseteq receipts \cup (server.sold \cap Sale)
    BY <1>2, <2>4 DEF CheckoutAnswered
  <2>6. UNCHANGED <<queue, loop, server, pressed, parked, unsure>> /\ unsure \subseteq Shoppers
    BY DEF CheckoutAnswered, TillTyped
  <2>7. QED
    BY <1>1, <2>3, <2>5, <2>6, PageCallOver, SMTT(30)
<1>3. CASE c.at # "stored"
  <2> DEFINE p == [page[t] EXCEPT !.busy = FALSE]
  <2>1. p \in Page /\ p.cart = CartOf(t)
    BY PageFlags
  <2>2. page' = [page EXCEPT ![t] = p] /\ receipts' = receipts /\ c.at = "refused"
    BY <1>3 DEF CheckoutAnswered
  <2> HIDE DEF p
  <2>3. page' \in [Tills -> Page] /\ CartsDrop
    BY <2>1, <2>2, PageKeeps
  <2>4. UNCHANGED <<queue, loop, server, pressed, parked, unsure>> /\ unsure \subseteq Shoppers
    BY DEF CheckoutAnswered, TillTyped
  <2>5. QED
    BY <1>1, <2>2, <2>3, <2>4, PageCallOver, SMTT(30)
<1>4. QED
  BY <1>2, <1>3

\* The cart stays, and the shopper is unsure.
LEMMA CheckoutLostKeeps ==
  ASSUME TillInv, NEW t \in Tills, NEW c \in call, CheckoutLost(t, c)
  PROVE  TillInv'
<1> USE DEF TillInv
<1> DEFINE p == [page[t] EXCEPT !.busy = FALSE]
<1>1. p \in Page /\ p.cart = CartOf(t) /\ page' = [page EXCEPT ![t] = p]
  BY PageFlags DEF CheckoutLost
<1> HIDE DEF p
<1>2. page' \in [Tills -> Page] /\ CartsDrop
  BY <1>1, PageKeeps
<1>3. PICK rest \in Abandoned(c) : call' = (call \ {c}) \cup rest
  BY DEF CheckoutLost
<1>4. c.by = <<t>> /\ unsure' = unsure \cup {c.sale.of}
  BY DEF CheckoutLost, OfPage
<1>5. unsure' \subseteq Shoppers
  BY <1>4, CallFields DEF TillTyped
<1>6. UNCHANGED <<queue, loop, server, receipts, pressed, parked>>
  BY DEF CheckoutLost
<1>7. QED
  BY <1>2, <1>3, <1>4, <1>5, <1>6, PageCallOver

\* The bill is stored, so the cart may go.
LEMMA HoldAnsweredKeeps ==
  ASSUME TillInv, NEW t \in Tills, NEW c \in call, HoldAnswered(t, c)
  PROVE  TillInv'
<1> USE DEF TillInv
<1> DEFINE p == [page[t] EXCEPT !.cart = NoCart]
<1>1. p \in Page /\ p.cart = NoCart /\ page' = [page EXCEPT ![t] = p]
  BY PageFields, PageWith DEF HoldAnswered
<1> HIDE DEF p
<1>2. page' \in [Tills -> Page] /\ CartsDrop /\ CartOf(t)' = NoCart
  BY <1>1, PageKeeps, PageSet
<1>3. {} \in Abandoned(c) /\ call' = (call \ {c}) \cup {} /\ c.by = <<t>> /\ c.at # "sent"
  BY DEF HoldAnswered, Abandoned
<1>4. /\ UNCHANGED <<queue, loop, server, receipts, pressed, parked, unsure>>
      /\ unsure \subseteq Shoppers
  BY DEF HoldAnswered, TillTyped
<1>5. QED
  BY <1>2, <1>3, <1>4, PageCallOver

\* The cart goes whether the bill was stored or not, so the shopper is unsure.
LEMMA HoldLostKeeps ==
  ASSUME TillInv, NEW t \in Tills, NEW c \in call, HoldLost(t, c)
  PROVE  TillInv'
<1> USE DEF TillInv
<1> DEFINE p == [page[t] EXCEPT !.cart = NoCart]
<1>1. p \in Page /\ p.cart = NoCart /\ page' = [page EXCEPT ![t] = p]
  BY PageFields, PageWith DEF HoldLost
<1> HIDE DEF p
<1>2. page' \in [Tills -> Page] /\ CartsDrop
  BY <1>1, PageKeeps
<1>3. PICK rest \in Abandoned(c) : call' = (call \ {c}) \cup rest
  BY DEF HoldLost
<1>4. c.by = <<t>> /\ unsure' = unsure \cup {c.sale.of}
  BY DEF HoldLost
<1>5. unsure' \subseteq Shoppers
  BY <1>4, CallFields DEF TillTyped
<1>6. UNCHANGED <<queue, loop, server, receipts, pressed, parked>>
  BY DEF HoldLost
<1>7. QED
  BY <1>2, <1>3, <1>4, <1>5, <1>6, PageCallOver

\* A loop is done with the sale it posted, which the server may still get.
LEMMA LoopCallOver ==
  ASSUME TillInv, NEW t \in Tills, NEW l \in Loops, NEW c \in call, OfLoop(t, l, c),
         NEW rest \in Abandoned(c), call' = (call \ {c}) \cup rest, Advance(t, l),
         NEW q \in Seq(Sale), queue' = [queue EXCEPT ![t] = q],
         ToSet(q) \subseteq ToSet(queue[t]),
         \A x \in ToSet(queue[t]) : x \in ToSet(q) \/ x \in server.sold,
         UNCHANGED <<page, server, receipts, pressed, parked, unsure>>
  PROVE  TillInv'
<1> USE DEF TillInv
<1>1. /\ c.by = <<t, l>> /\ c.by # <<>> /\ c.kind = "checkout" /\ \A u : c.by # <<u>>
  BY CallWaiters DEF OfLoop
<1>2. /\ call' \subseteq CheckoutCall \cup HoldCall
      /\ call \ call' \subseteq {c}
      /\ \A d \in call' : \/ d \in call \ {c}
                          \/ /\ c \in call \ call' /\ c.at = "sent"
                             /\ d = [c EXCEPT !.by = <<>>] /\ d.by = <<>>
  BY <1>1, CallOver
<1> DEFINE r == [loop[t][l] EXCEPT !.todo = Tail(@)]
<1>3. r \in LoopState /\ ToSet(r.todo) \subseteq ToSet(loop[t][l].todo)
  <2>1. loop[t][l].todo # <<>> /\ loop[t][l] \in LoopState
    BY DEF LoopsWait, TillTyped
  <2>2. loop[t][l].todo \in Seq(Sale)
    BY <2>1 DEF LoopState
  <2>3. /\ Tail(loop[t][l].todo) \in Seq(Sale)
        /\ ToSet(Tail(loop[t][l].todo)) \subseteq ToSet(loop[t][l].todo)
    BY <2>1, <2>2, QueueChanges
  <2>4. r \in LoopState /\ r.todo = Tail(loop[t][l].todo)
    BY <2>1, <2>3 DEF LoopState
  <2>5. QED
    BY <2>3, <2>4
<1>4. loop' = [loop EXCEPT ![t][l] = r]
  BY DEF Advance, TillTyped
<1> HIDE DEF r
<1>5. /\ loop' \in [Tills -> [Loops -> LoopState]]
      /\ \A x : ToPost(x)' => ToPost(x) \/ Queued(x)
      /\ \A u \in Tills, m \in Loops : loop'[u][m] = loop[u][m] \/ (u = t /\ m = l)
  <2>1. ToSet(r.todo) \subseteq ToSet(loop[t][l].todo) \cup ToSet(queue[t])
    BY <1>3
  <2>2. TillTyped /\ r \in LoopState
    BY <1>3
  <2>3. QED
    BY <1>4, <2>1, <2>2, LoopSet
<1>6. /\ queue' \in [Tills -> Seq(Sale)] /\ queue'[t] = q
      /\ \A u \in Tills \ {t} : queue'[u] = queue[u]
  BY DEF TillTyped
<1>7. \A x : Queued(x)' => Queued(x)
  BY <1>6 DEF Queued
<1>8. \A x : Queued(x) => Queued(x)' \/ x \in server.sold
  BY <1>6 DEF Queued
<1>9. TillTyped'
  BY <1>2, <1>5, <1>6 DEF TillTyped
<1>10. Lessens
  BY <1>2, <1>5, <1>7, <1>8 DEF Lessens
<1>11. CallsDrop
  BY <1>1, <1>2 DEF CallsDrop
<1>12. CartsDrop
  BY DEF CartsDrop, CartOf
<1>13. LoopsWait'
  <2>1. \A d \in call' : d \in call \/ d.by = <<>>
    BY <1>2
  <2>2. \A d \in call' : ~OfLoop(t, l, d)
    BY <1>1, <1>2 DEF LoopsWait, OfLoop
  <2>3. QED
    BY <1>5, <2>1, <2>2, LoopsWaitOn DEF OfLoop
<1>14. QED
  BY <1>9, <1>10, <1>11, <1>12, <1>13, LessStep

\* A sale leaves the queue only when it is sold.
LEMMA QueuedAnsweredKeeps ==
  ASSUME TillInv, NEW t \in Tills, NEW l \in Loops, NEW c \in call, QueuedAnswered(t, l, c)
  PROVE  TillInv'
<1> USE DEF TillInv
<1>1. OfLoop(t, l, c) /\ {} \in Abandoned(c) /\ call' = (call \ {c}) \cup {} /\ Advance(t, l)
  BY DEF QueuedAnswered, Abandoned
<1>2. queue[t] \in Seq(Sale) /\ c.kind = "checkout"
  BY <1>1, CallWaiters DEF TillTyped, OfLoop
<1> DEFINE q == Dropped(t, c)
<1>3. /\ q \in Seq(Sale) /\ ToSet(q) \subseteq ToSet(queue[t])
      /\ \A x \in ToSet(queue[t]) : x \in ToSet(q) \/ x \in server.sold
  <2>1. CASE c.at = "stored"
    <3>1. q = Without(queue[t], c.sale)
      BY <2>1 DEF Dropped
    <3>2. c.sale \in server.sold
      BY <1>2, <2>1 DEF AnswersAreTrue
    <3> HIDE DEF q
    <3>3. QED
      BY <1>2, <3>1, <3>2, WithoutOne
  <2>2. CASE c.at # "stored"
    BY <1>2, <2>2 DEF Dropped
  <2>3. QED
    BY <2>1, <2>2
<1>4. queue' = [queue EXCEPT ![t] = q]
  BY DEF QueuedAnswered
<1> HIDE DEF q
<1>5. UNCHANGED <<page, server, receipts, pressed, parked, unsure>>
  BY DEF QueuedAnswered
<1>6. QED
  BY <1>1, <1>3, <1>4, <1>5, LoopCallOver

\* The queue keeps the sale.
LEMMA QueuedLostKeeps ==
  ASSUME TillInv, NEW t \in Tills, NEW l \in Loops, NEW c \in call, QueuedLost(t, l, c)
  PROVE  TillInv'
<1>1. PICK rest \in Abandoned(c) : call' = (call \ {c}) \cup rest
  BY DEF QueuedLost
<1>2. queue[t] \in Seq(Sale) /\ queue' = [queue EXCEPT ![t] = queue[t]]
  BY DEF QueuedLost, TillInv, TillTyped
<1>3. /\ OfLoop(t, l, c) /\ Advance(t, l)
      /\ UNCHANGED <<page, server, receipts, pressed, parked, unsure>>
  BY DEF QueuedLost
<1>4. QED
  BY <1>1, <1>2, <1>3, LoopCallOver

\* A reloaded page waits for nothing, and has its cart and its queue.
LEMMA ReloadKeeps ==
  ASSUME TillInv, NEW t \in Tills, Reload(t)
  PROVE  TillInv'
<1> USE DEF TillInv
<1> DEFINE mine == {c \in call : c.by # <<>> /\ c.by[1] = t}
<1>1. /\ call' = (call \ mine) \cup {[c EXCEPT !.by = <<>>] : c \in {d \in mine : d.at = "sent"}}
      /\ unsure' = unsure \cup {c.sale.of : c \in {d \in mine : d.by = <<t>>}}
  BY DEF Reload
<1>2. UNCHANGED <<queue, server, receipts, pressed, parked>>
  BY DEF Reload
<1>3. \A c \in mine : /\ [c EXCEPT !.by = <<>>].by = <<>>
                      /\ [c EXCEPT !.by = <<>>] \in CheckoutCall \cup HoldCall
  BY AbandonedFields
<1>4. \A c \in mine : c \in call /\ c.by # <<>> /\ c.by[1] = t
  OBVIOUS
<1>5. \A c \in call : c.by # <<>> /\ c.by[1] = t => c \in mine
  OBVIOUS
<1> HIDE DEF mine
<1>6. \A c \in mine : c \notin call'
  BY <1>1, <1>3, <1>4
<1>7. \A d \in call' : \/ d \in call \ mine
                       \/ /\ d.by = <<>>
                          /\ \E c \in call \ call' :
                               c.at = "sent" /\ d = [c EXCEPT !.by = <<>>]
  BY <1>1, <1>3, <1>4, <1>6
<1>8. \A c \in call \ call' : c \in mine
  BY <1>1
<1> DEFINE p == [FreshPage EXCEPT !.cart = CartOf(t), !.known = server.stock,
                                  !.offline = page[t].offline]
<1>9. p \in Page /\ p.cart = CartOf(t)
  <2>1. CartOf(t) \in Bill /\ server.stock \in 0..Stock /\ page[t].offline \in BOOLEAN
    BY PageFields DEF TillTyped, Page
  <2>2. QED
    BY <2>1 DEF FreshPage, Page
<1>10. page' = [page EXCEPT ![t] = p]
  BY DEF Reload
<1> HIDE DEF p
<1>11. page' \in [Tills -> Page] /\ CartsDrop
  BY <1>9, <1>10, PageKeeps
<1>12. /\ loop' \in [Tills -> [Loops -> LoopState]]
       /\ \A l \in Loops : loop'[t][l] = NoLoop
       /\ \A u \in Tills \ {t} : loop'[u] = loop[u]
  <2>1. [l \in Loops |-> NoLoop] \in [Loops -> LoopState]
    BY DEF NoLoop, LoopState
  <2>2. QED
    BY <2>1 DEF Reload, TillTyped
<1>13. \A x : ToPost(x)' => ToPost(x)
  <2>1. ToSet(NoLoop.todo) = {}
    BY DEF NoLoop, ToSet
  <2>2. QED
    BY <1>12, <2>1 DEF ToPost
<1>14. call' \subseteq CheckoutCall \cup HoldCall /\ unsure' \subseteq Shoppers
  BY <1>1, <1>3, <1>4, CallFields DEF TillTyped
<1>15. TillTyped'
  BY <1>2, <1>11, <1>12, <1>14 DEF TillTyped
<1>16. Lessens
  BY <1>1, <1>2, <1>7, <1>13 DEF Lessens, Queued
<1>17. \A c \in mine, u \in Tills : c.by = <<u>> => u = t /\ c.sale.of \in unsure'
  BY <1>1, <1>4, ByApart
<1>18. CallsDrop
  <2>1. \A c \in mine : c.kind = "hold" => \E u \in Tills : c.by = <<u>>
    BY <1>4, CallFields DEF HoldCall, ByPage
  <2>2. QED
    BY <1>8, <1>17, <2>1 DEF CallsDrop
<1>19. LoopsWait'
  <2>1. \A l \in Loops : \A c \in call' : ~OfLoop(t, l, c)
    BY <1>5, <1>7, ByApart DEF OfLoop
  <2>2. \A u \in Tills, l \in Loops :
          loop'[u][l] = loop[u][l] \/ \A c \in call' : ~OfLoop(u, l, c)
    BY <1>12, <2>1
  <2>3. QED
    BY <1>7, <2>2, LoopsWaitOn
<1>20. QED
  BY <1>11, <1>15, <1>16, <1>18, <1>19, LessStep

\* The kinds of places are told apart by their names.
LEMMA PlaceKinds ==
  ASSUME NEW s
  PROVE  /\ \A q \in Places(s) :
              \/ \E t \in CartsOf(s) : q = <<"cart", t>>
              \/ \E h \in HeldOf(s) : q = <<"held", h>>
              \/ \E c \in ParkingOf(s) : q = <<"parking", c>>
              \/ \E x \in SalesOf(s) : q = <<"sale", x>>
         /\ \A x : /\ x \in CartsOf(s) => <<"cart", x>> \in Places(s)
                   /\ x \in HeldOf(s) => <<"held", x>> \in Places(s)
                   /\ x \in ParkingOf(s) => <<"parking", x>> \in Places(s)
                   /\ x \in SalesOf(s) => <<"sale", x>> \in Places(s)
         /\ \A q \in Places(s)' :
              \/ \E t \in CartsOf(s)' : q = <<"cart", t>>
              \/ \E h \in HeldOf(s)' : q = <<"held", h>>
              \/ \E c \in ParkingOf(s)' : q = <<"parking", c>>
              \/ \E x \in SalesOf(s)' : q = <<"sale", x>>
  BY DEF Places

\* A place of one kind is none of another, and two of a kind differ by what is there.
LEMMA KindsApart ==
  \A x, y :  /\ <<"cart", x>> # <<"held", y>> /\ <<"cart", x>> # <<"parking", y>>
             /\ <<"cart", x>> # <<"sale", y>> /\ <<"held", x>> # <<"parking", y>>
             /\ <<"held", x>> # <<"sale", y>> /\ <<"parking", x>> # <<"sale", y>>
             /\ <<"cart", x>> = <<"cart", y>> => x = y
             /\ <<"held", x>> = <<"held", y>> => x = y
             /\ <<"parking", x>> = <<"parking", y>> => x = y
             /\ <<"sale", x>> = <<"sale", y>> => x = y
<1>1. \A a, b, x, y : <<a, x>> = <<b, y>> => a = b /\ x = y
  OBVIOUS
<1>2. QED
  BY <1>1

\* The goods of a shopper go from one place to another, and are in no other place then.
LEMMA GoodsMove ==
  ASSUME OnePlace, NEW s \in Shoppers \ unsure, NEW p0, NEW p1, p0 \in Places(s),
         \A t \in CartsOf(s)' : <<"cart", t>> = p1 \/ (t \in CartsOf(s) /\ <<"cart", t>> # p0),
         \A h \in HeldOf(s)' : <<"held", h>> = p1 \/ (h \in HeldOf(s) /\ <<"held", h>> # p0),
         \A c \in ParkingOf(s)' :
           <<"parking", c>> = p1 \/ (c \in ParkingOf(s) /\ <<"parking", c>> # p0),
         \A x \in SalesOf(s)' : <<"sale", x>> = p1 \/ (x \in SalesOf(s) /\ <<"sale", x>> # p0)
  PROVE  \A p, q \in Places(s)' : p = q
<1>1. \A t \in CartsOf(s)' : <<"cart", t>> = p1 \/ (<<"cart", t>> \in Places(s) \ {p0})
  BY PlaceKinds
<1>2. \A h \in HeldOf(s)' : <<"held", h>> = p1 \/ (<<"held", h>> \in Places(s) \ {p0})
  BY PlaceKinds
<1>3. \A c \in ParkingOf(s)' :
        <<"parking", c>> = p1 \/ (<<"parking", c>> \in Places(s) \ {p0})
  BY PlaceKinds
<1>4. \A x \in SalesOf(s)' : <<"sale", x>> = p1 \/ (<<"sale", x>> \in Places(s) \ {p0})
  BY PlaceKinds
<1>5. \A q \in Places(s)' : q = p1 \/ q \in Places(s) \ {p0}
  BY <1>1, <1>2, <1>3, <1>4, PlaceKinds
<1>6. QED
  BY <1>5, PlaceMoves
-----------------------------------------------------------------------------
(* Parked bills *)

\* A parked bill is somebody's.
LEMMA HeldFields ==
  ASSUME TillTyped, NEW h \in server.held
  PROVE  h.bill \in FullBill /\ h.bill \in Bill /\ h.bill.of \subseteq Shoppers
<1>1. h.bill \in FullBill
  BY DEF TillTyped, Parked
<1>2. QED
  BY <1>1 DEF FullBill, Bill

\* A deleted bill is in no place.
LEMMA DeleteHeldBillKeeps ==
  ASSUME TillInv, NEW h \in server.held, DeleteHeldBill(h)
  PROVE  TillInv'
<1> USE DEF TillInv
<1>1. /\ server' = [server EXCEPT !.held = @ \ {h}]
      /\ UNCHANGED <<page, queue, loop, call, receipts, pressed, parked, unsure>>
  BY DEF DeleteHeldBill
<1>2. /\ server'.held = server.held \ {h} /\ server'.sold = server.sold
      /\ server'.refused = server.refused /\ server'.stock = server.stock
      /\ server' \in [sold : SUBSET Sale, refused : SUBSET Sale, held : SUBSET Parked,
                      stock : 0..Stock]
  BY <1>1 DEF TillTyped
<1>3. TillTyped'
  BY <1>1, <1>2 DEF TillTyped
<1>4. Lessens /\ CallsDrop /\ CartsDrop
  BY <1>1, <1>2 DEF Lessens, CallsDrop, CartsDrop, CartOf, Queued, ToPost
<1>5. LoopsWait'
  BY <1>1, LoopsWaitOn
<1>6. QED
  BY <1>3, <1>4, <1>5, LessStep

\* The bill goes from the server into the cart, over whatever is in it, or is lost on the way.
LEMMA RestoreHeldBillKeeps ==
  ASSUME TillInv, NEW t \in Tills, NEW h \in server.held, RestoreHeldBill(t, h)
  PROVE  TillInv'
<1> USE DEF TillInv
<1>1. /\ server' = [server EXCEPT !.held = @ \ {h}]
      /\ UNCHANGED <<queue, loop, call, receipts, pressed, parked>>
  BY DEF RestoreHeldBill, Taken
<1>2. /\ server'.held = server.held \ {h} /\ server'.sold = server.sold
      /\ server'.refused = server.refused /\ server'.stock = server.stock
      /\ server' \in [sold : SUBSET Sale, refused : SUBSET Sale, held : SUBSET Parked,
                      stock : 0..Stock]
  BY <1>1 DEF TillTyped
<1>3. h.bill \in FullBill /\ h.bill \in Bill /\ h.bill.of \subseteq Shoppers
  BY HeldFields
<1>4. LoopsWait'
  BY <1>1, LoopsWaitOn
<1>5. CASE page' = page /\ unsure' = unsure \cup h.bill.of
  <2>1. TillTyped'
    BY <1>1, <1>2, <1>3, <1>5 DEF TillTyped
  <2>2. Lessens /\ CallsDrop /\ CartsDrop
    BY <1>1, <1>2, <1>5 DEF Lessens, CallsDrop, CartsDrop, CartOf, Queued, ToPost
  <2>3. QED
    BY <1>4, <2>1, <2>2, LessStep
<1>6. CASE page' = [page EXCEPT ![t].cart = h.bill] /\ unsure' = unsure
  <2> DEFINE view == [page[t] EXCEPT !.cart = h.bill]
  <2>1. view \in Page /\ view.cart = h.bill /\ page' = [page EXCEPT ![t] = view]
    BY <1>3, <1>6, PageFields, PageWith
  <2> HIDE DEF view
  <2>2. /\ page' \in [Tills -> Page]
        /\ CartOf(t)' = h.bill /\ \A u \in Tills \ {t} : CartOf(u)' = CartOf(u)
    BY <2>1, PageSet
  <2>3. TillTyped'
    BY <1>1, <1>2, <1>6, <2>2 DEF TillTyped
  <2>4. Lessens /\ CallsDrop
    BY <1>1, <1>2, <1>6 DEF Lessens, CallsDrop, Queued, ToPost
  <2>5. PICK s \in Shoppers : h.bill.of = {s}
    BY <1>3 DEF FullBill
  <2>6. ASSUME NEW r \in Shoppers \ unsure' PROVE \A p, q \in Places(r)' : p = q
    <3>1. /\ HeldOf(r)' \subseteq HeldOf(r) \ {h} /\ ParkingOf(r)' \subseteq ParkingOf(r)
          /\ SalesOf(r)' \subseteq SalesOf(r)
          /\ \A u \in Tills : CartOf(u)'.of = {r} /\ Clearing(u, r) => Clearing(u, r)'
      <4>1. HeldOf(r)' \subseteq HeldOf(r) \ {h}
        BY <1>2 DEF HeldOf
      <4>2. QED
        BY <2>4, <4>1, LessPlaces
    <3>2. r \in Shoppers \ unsure
      BY <1>6
    <3>3. CASE r # s
      <4>1. CartsOf(r)' \subseteq CartsOf(r)
        BY <2>2, <2>5, <3>1, <3>3 DEF CartsOf
      <4>2. Places(r)' \subseteq Places(r)
        BY <3>1, <4>1, PlacesFewer
      <4>3. QED
        BY <3>2, <4>2 DEF OnePlace
    <3>4. CASE r = s
      <4>1. CartsOf(r)' \subseteq CartsOf(r) \cup {t}
        BY <2>2, <3>1 DEF CartsOf
      <4>2. <<"held", h>> \in Places(r)
        <5>1. h \in HeldOf(r)
          BY <2>5, <3>4 DEF HeldOf
        <5>2. QED
          BY <5>1, PlaceKinds
      <4>3. /\ \A u \in CartsOf(r)' :
                 <<"cart", u>> = <<"cart", t>>
                 \/ (u \in CartsOf(r) /\ <<"cart", u>> # <<"held", h>>)
            /\ \A g \in HeldOf(r)' : g \in HeldOf(r) /\ <<"held", g>> # <<"held", h>>
            /\ \A c \in ParkingOf(r)' :
                 c \in ParkingOf(r) /\ <<"parking", c>> # <<"held", h>>
            /\ \A x \in SalesOf(r)' : x \in SalesOf(r) /\ <<"sale", x>> # <<"held", h>>
        BY <3>1, <4>1, KindsApart
      <4>4. QED
        BY <3>2, <4>2, <4>3, GoodsMove
    <3>5. QED
      BY <3>3, <3>4
  <2>7. OnePlace'
    BY <2>6 DEF OnePlace
  <2>8. QED
    BY <1>4, <2>3, <2>4, <2>7, LessKeeps
<1>7. QED
  BY <1>5, <1>6 DEF RestoreHeldBill

\* What parks bills and changes nothing else posts and sells as before.
LEMMA HoldsOnly ==
  ASSUME TillInv, UNCHANGED <<queue, loop, receipts, pressed>>,
         server'.sold = server.sold, server'.stock = server.stock,
         \A c : c.kind = "checkout" => (c \in call' <=> c \in call)
  PROVE  /\ StockTold' /\ SalesNumbered' /\ PagePostsAlone' /\ AnswersAreTrue' /\ ReceiptsBacked'
         /\ \A s : SalesOf(s)' = SalesOf(s)
<1> USE DEF TillInv
<1>1. \A x : /\ Queued(x)' <=> Queued(x)
             /\ ToPost(x)' <=> ToPost(x)
             /\ Posted(x)' <=> Posted(x)
             /\ Sending(x)' <=> Sending(x)
  BY DEF Queued, ToPost, Posted, Sending
<1>2. \A x : Confirmed(x)' <=> Confirmed(x)
  BY <1>1 DEF Confirmed
<1>3. StockTold'
  BY DEF StockTold
<1>4. SalesNumbered'
  BY <1>2 DEF SalesNumbered
<1>5. PagePostsAlone'
  BY <1>1 DEF PagePostsAlone
<1>6. AnswersAreTrue'
  BY DEF AnswersAreTrue
<1>7. ReceiptsBacked'
  BY <1>1 DEF ReceiptsBacked
<1>8. \A s : SalesOf(s)' = SalesOf(s)
  BY <1>1 DEF SalesOf, Sells
<1>9. QED
  BY <1>3, <1>4, <1>5, <1>6, <1>7, <1>8

\* A shopper who stays apart has no call under way when another is sent.
LEMMA NoneUnderWay ==
  ASSUME NEW s, s \notin unsure \cup Entangled(s)
  PROVE  /\ \A c \in call : c.sale.of # s
         /\ \A t \in Tills : CartOf(t).of = {s} => t \in CartsOf(s)
<1>1. \A c \in call : c.sale.of # s
  BY DEF Entangled
<1>2. QED
  BY <1>1 DEF CartsOf, Clearing

\* The cart goes on its way to the server.
LEMMA HoldBillKeeps ==
  ASSUME TillInv, NEW t \in Tills, HoldBill(t)
  PROVE  TillInv'
<1> USE DEF TillInv
<1> DEFINE s == Owner(CartOf(t))
           c == [kind |-> "hold", by |-> <<t>>, at |-> "sent",
                 sale |-> [of |-> s, n |-> parked[s] + 1, qty |-> CartOf(t).qty],
                 bill |-> CartOf(t)]
<1>1. /\ CartOf(t) # NoCart /\ parked[s] < MaxPark
      /\ parked' = [parked EXCEPT ![s] = @ + 1]
      /\ unsure' = unsure \cup Entangled(s) /\ call' = call \cup {c}
      /\ UNCHANGED <<page, queue, loop, server, receipts, pressed>>
  BY DEF HoldBill
<1>2. /\ CartOf(t) \in FullBill /\ s \in Shoppers /\ CartOf(t).of = {s}
      /\ CartOf(t).qty \in 1..(MaxQty + 1)
  BY <1>1, PageFields, CartOwner
<1>3. parked[s] \in Nat /\ parked[s] + 1 \in 1..MaxPark
  BY <1>1, <1>2, TillAssumption DEF TillTyped
<1>4. /\ c.kind = "hold" /\ c.by = <<t>> /\ c.at = "sent" /\ c.sale.of = s /\ c.bill.of = {s}
      /\ c \in HoldCall
  BY <1>2, <1>3 DEF HoldCall, ByPage
<1> HIDE DEF c, s
<1>5. parked' \in [Shoppers -> 0..MaxPark] /\ \A r \in Shoppers : parked'[r] >= parked[r]
  BY <1>1, <1>2, <1>3 DEF TillTyped
<1>6. parked'[s] >= 1
  BY <1>1, <1>2, <1>3 DEF TillTyped
<1>7. TillTyped'
  <2>1. unsure' \subseteq Shoppers
    BY <1>1, <1>2 DEF TillTyped, Entangled
  <2>2. QED
    BY <1>1, <1>4, <1>5, <2>1 DEF TillTyped
<1>8. /\ StockTold' /\ SalesNumbered' /\ PagePostsAlone' /\ AnswersAreTrue' /\ ReceiptsBacked'
      /\ \A r : SalesOf(r)' = SalesOf(r)
  BY <1>1, <1>4, HoldsOnly
<1>9. ParkedCounted'
  <2>1. ASSUME NEW d \in call', d.kind = "hold"
        PROVE  parked'[d.sale.of] >= 1 /\ d.bill.of = {d.sale.of}
    <3>1. CASE d = c
      BY <1>4, <1>6, <3>1
    <3>2. CASE d \in call
      <4>1. parked[d.sale.of] >= 1 /\ d.bill.of = {d.sale.of} /\ d.sale.of \in Shoppers
        BY <2>1, <3>2, CallFields DEF ParkedCounted
      <4>2. parked[d.sale.of] \in 0..MaxPark /\ parked'[d.sale.of] \in 0..MaxPark
            /\ parked'[d.sale.of] >= parked[d.sale.of]
        BY <1>5, <4>1 DEF TillTyped
      <4>3. QED
        BY <4>1, <4>2, TillAssumption
    <3>3. QED
      BY <1>1, <3>1, <3>2
  <2>2. ASSUME NEW h \in server'.held, NEW r \in Shoppers, h.bill.of = {r} PROVE parked'[r] >= 1
    <3>1. parked[r] >= 1
      BY <1>1, <2>2 DEF ParkedCounted
    <3>2. parked[r] \in 0..MaxPark /\ parked'[r] \in 0..MaxPark /\ parked'[r] >= parked[r]
      BY <1>5 DEF TillTyped
    <3>3. QED
      BY <3>1, <3>2, TillAssumption
  <2>3. QED
    BY <2>1, <2>2 DEF ParkedCounted
<1>10. LoopsWait'
  BY <1>1, <1>4, ByApart DEF LoopsWait, OfLoop
<1>11. ASSUME NEW r \in Shoppers \ unsure' PROVE \A p, q \in Places(r)' : p = q
  <2>1. HeldOf(r)' = HeldOf(r) /\ ParkingOf(r)' \subseteq ParkingOf(r) \cup {c}
    BY <1>1 DEF HeldOf, ParkingOf
  <2>2. CartsOf(r)' \subseteq CartsOf(r)
    BY <1>1 DEF CartsOf, Clearing, CartOf
  <2>3. r \in Shoppers \ unsure
    BY <1>1
  <2>4. CASE r # s
    <3>1. ParkingOf(r)' \subseteq ParkingOf(r)
      BY <1>1, <1>4, <2>4 DEF ParkingOf
    <3>2. Places(r)' \subseteq Places(r)
      BY <1>8, <2>1, <2>2, <3>1, PlacesFewer
    <3>3. QED
      BY <2>3, <3>2 DEF OnePlace
  <2>5. CASE r = s
    <3>1. t \in CartsOf(r)
      BY <1>1, <1>2, <2>5, NoneUnderWay
    <3>2. t \notin CartsOf(r)'
      BY <1>1, <1>4, <2>5 DEF CartsOf, Clearing
    <3>3. <<"cart", t>> \in Places(r)
      BY <3>1, PlaceKinds
    <3>4. /\ \A u \in CartsOf(r)' : u \in CartsOf(r) /\ <<"cart", u>> # <<"cart", t>>
          /\ \A h \in HeldOf(r)' : h \in HeldOf(r) /\ <<"held", h>> # <<"cart", t>>
          /\ \A d \in ParkingOf(r)' :
               <<"parking", d>> = <<"parking", c>>
               \/ (d \in ParkingOf(r) /\ <<"parking", d>> # <<"cart", t>>)
          /\ \A x \in SalesOf(r)' : x \in SalesOf(r) /\ <<"sale", x>> # <<"cart", t>>
      BY <1>8, <2>1, <2>2, <3>2, KindsApart
    <3>5. QED
      BY <2>3, <3>3, <3>4, GoodsMove
  <2>6. QED
    BY <2>4, <2>5
<1>12. OnePlace'
  BY <1>11 DEF OnePlace
<1>13. QED
  BY <1>7, <1>8, <1>9, <1>10, <1>12

\* The bill arrives at the server.
LEMMA StoreHeldKeeps ==
  ASSUME TillInv, NEW c \in call, StoreHeld(c)
  PROVE  TillInv'
<1> USE DEF TillInv
<1> DEFINE s == c.sale.of
           e == [c EXCEPT !.at = "stored"]
           h == [bill |-> c.bill, n |-> c.sale.n]
<1>1. /\ c.kind = "hold" /\ c.at = "sent"
      /\ server' = [server EXCEPT !.held = @ \cup {h}]
      /\ call' = (call \ {c}) \cup IF c.by = <<>> THEN {} ELSE {e}
      /\ UNCHANGED <<page, queue, loop, receipts, pressed, parked, unsure>>
  BY DEF StoreHeld
<1>2. c \in HoldCall /\ s \in Shoppers /\ c.bill.of = {s} /\ parked[s] >= 1
  BY <1>1, CallFields DEF ParkedCounted
<1>3. h \in Parked /\ h.bill.of = {s}
  BY <1>2, CallFields, <1>1 DEF Parked
<1>4. /\ e \in HoldCall /\ e.kind = "hold" /\ e.at = "stored" /\ e.by = c.by /\ e.sale = c.sale
      /\ e.bill = c.bill
  BY <1>2 DEF HoldCall
<1> HIDE DEF e, h, s
<1>5. /\ server'.held = server.held \cup {h} /\ server'.sold = server.sold
      /\ server'.refused = server.refused /\ server'.stock = server.stock
      /\ server' \in [sold : SUBSET Sale, refused : SUBSET Sale, held : SUBSET Parked,
                      stock : 0..Stock]
  BY <1>1, <1>3 DEF TillTyped
<1>6. \A d \in call' : d \in call \ {c} \/ (d = e /\ c.by # <<>>)
  BY <1>1
<1>7. TillTyped'
  BY <1>1, <1>4, <1>5 DEF TillTyped
<1>8. /\ StockTold' /\ SalesNumbered' /\ PagePostsAlone' /\ AnswersAreTrue' /\ ReceiptsBacked'
      /\ \A r : SalesOf(r)' = SalesOf(r)
  <2>1. ASSUME NEW d, d.kind = "checkout" PROVE d \in call' <=> d \in call
    <3>1. d # c /\ d # e
      BY <1>1, <1>4, <2>1
    <3>2. QED
      BY <1>1, <3>1
  <2>2. QED
    BY <1>1, <1>5, <2>1, HoldsOnly
<1>9. ParkedCounted'
  <2>1. \A d \in call' : d.kind = "hold" => parked'[d.sale.of] >= 1 /\ d.bill.of = {d.sale.of}
    BY <1>1, <1>2, <1>4, <1>6 DEF ParkedCounted, s
  <2>2. ASSUME NEW g \in server'.held, NEW r \in Shoppers, g.bill.of = {r} PROVE parked'[r] >= 1
    BY <1>1, <1>2, <1>3, <1>5, <2>2 DEF ParkedCounted
  <2>3. QED
    BY <2>1, <2>2 DEF ParkedCounted
<1>10. LoopsWait'
  <2>1. ASSUME NEW u \in Tills, NEW l \in Loops PROVE c.by # <<u, l>>
    BY <1>1, CallWaiters
  <2>2. QED
    BY <1>1, <1>4, <1>6, <2>1 DEF LoopsWait, OfLoop
<1>11. ASSUME NEW r \in Shoppers \ unsure' PROVE \A p, q \in Places(r)' : p = q
  <2>1. r \in Shoppers \ unsure
    BY <1>1
  <2>2. CartsOf(r)' \subseteq CartsOf(r)
    <3>1. \A u \in Tills : Clearing(u, r) => Clearing(u, r)'
      <4> SUFFICES ASSUME NEW u \in Tills, NEW d \in call,
                          d.by = <<u>>, d.sale.of = r, d.at # "refused"
                   PROVE  Clearing(u, r)'
        BY DEF Clearing
      <4>1. CASE d = c
        <5>1. c.by # <<>>
          BY <4>1, ByApart
        <5>2. e \in call'
          BY <1>1, <5>1
        <5>3. QED
          BY <1>4, <4>1, <5>2 DEF Clearing
      <4>2. CASE d # c
        BY <1>1, <4>2 DEF Clearing
      <4>3. QED
        BY <4>1, <4>2
    <3>2. QED
      BY <1>1, <3>1 DEF CartsOf, CartOf
  <2>3. ParkingOf(r)' \subseteq ParkingOf(r) \ {c}
    BY <1>4, <1>6 DEF ParkingOf
  <2>4. CASE r # s
    <3>1. HeldOf(r)' \subseteq HeldOf(r)
      BY <1>3, <1>5, <2>4 DEF HeldOf
    <3>2. Places(r)' \subseteq Places(r)
      BY <1>8, <2>2, <2>3, <3>1, PlacesFewer
    <3>3. QED
      BY <2>1, <3>2 DEF OnePlace
  <2>5. CASE r = s
    <3>1. HeldOf(r)' \subseteq HeldOf(r) \cup {h}
      BY <1>5 DEF HeldOf
    <3>2. <<"parking", c>> \in Places(r)
      <4>1. c \in ParkingOf(r)
        BY <1>1, <2>5 DEF ParkingOf, s
      <4>2. QED
        BY <4>1, PlaceKinds
    <3>3. /\ \A u \in CartsOf(r)' : u \in CartsOf(r) /\ <<"cart", u>> # <<"parking", c>>
          /\ \A g \in HeldOf(r)' :
               <<"held", g>> = <<"held", h>>
               \/ (g \in HeldOf(r) /\ <<"held", g>> # <<"parking", c>>)
          /\ \A d \in ParkingOf(r)' :
               d \in ParkingOf(r) /\ <<"parking", d>> # <<"parking", c>>
          /\ \A x \in SalesOf(r)' : x \in SalesOf(r) /\ <<"sale", x>> # <<"parking", c>>
      BY <1>8, <2>2, <2>3, <3>1, KindsApart
    <3>4. QED
      BY <2>1, <3>2, <3>3, GoodsMove
  <2>6. QED
    BY <2>4, <2>5
<1>12. OnePlace'
  BY <1>11 DEF OnePlace
<1>13. QED
  BY <1>7, <1>8, <1>9, <1>10, <1>12
-----------------------------------------------------------------------------
(* Posting and selling *)

\* A loop sends a sale that was to be posted anyway.
LEMMA PostQueuedKeeps ==
  ASSUME TillInv, NEW t \in Tills, NEW l \in Loops, PostQueued(t, l)
  PROVE  TillInv'
<1> USE DEF TillInv
<1> DEFINE x0 == Head(loop[t][l].todo)
           c == [kind |-> "checkout", by |-> <<t, l>>, sale |-> x0, at |-> "sent"]
<1>1. /\ loop[t][l].on /\ loop[t][l].todo # <<>> /\ ~Waits(t, l)
      /\ call' = call \cup {c}
      /\ UNCHANGED <<page, queue, loop, server, receipts, pressed, parked, unsure>>
  BY DEF PostQueued
<1>2. x0 \in Sale /\ ToPost(x0)
  <2>1. loop[t][l].todo \in Seq(Sale)
    BY DEF TillTyped, LoopState
  <2>2. x0 \in ToSet(loop[t][l].todo) /\ ToSet(loop[t][l].todo) \subseteq Sale
    BY <1>1, <2>1, QueueChanges
  <2>3. QED
    BY <2>2 DEF ToPost
<1>3. /\ c \in CheckoutCall /\ c.kind = "checkout" /\ c.by = <<t, l>> /\ c.at = "sent"
      /\ c.sale = x0
      /\ \A u : c.by # <<u>>
  BY <1>2, ByApart DEF CheckoutCall, By
<1> HIDE DEF c, x0
<1>4. TillTyped'
  BY <1>1, <1>3 DEF TillTyped
<1>5. \A x : /\ Queued(x)' <=> Queued(x)
             /\ ToPost(x)' <=> ToPost(x)
             /\ Posted(x)' => Posted(x) \/ x = x0
             /\ Sending(x)' => Sending(x) \/ x = x0
  BY <1>1, <1>3 DEF Queued, ToPost, Posted, Sending
<1>6. StockTold' /\ ReceiptsBacked'
  BY <1>1, <1>5 DEF StockTold, ReceiptsBacked
<1>7. SalesNumbered'
  <2>1. \A x : Confirmed(x)' => Confirmed(x)
    BY <1>1, <1>2, <1>5 DEF Confirmed
  <2>2. QED
    BY <1>1, <2>1 DEF SalesNumbered
<1>8. PagePostsAlone'
  <2>1. c.by \notin ByPage
    BY <1>3 DEF ByPage
  <2>2. \A d \in call : d.kind = "checkout" /\ d.by \in ByPage => d.sale # x0
    BY <1>2 DEF PagePostsAlone
  <2>3. QED
    BY <1>1, <1>3, <1>5, <2>1, <2>2 DEF PagePostsAlone
<1>9. AnswersAreTrue' /\ ParkedCounted'
  BY <1>1, <1>3 DEF AnswersAreTrue, ParkedCounted
<1>10. LoopsWait'
  <2>1. \A u \in Tills, m \in Loops : c.by = <<u, m>> => u = t /\ m = l
    BY <1>3
  <2>2. \A d \in call : ~OfLoop(t, l, d)
    BY <1>1 DEF Waits
  <2>3. QED
    BY <1>1, <1>3, <2>1, <2>2 DEF LoopsWait, OfLoop
<1>11. ASSUME NEW r \in Shoppers \ unsure' PROVE Places(r)' \subseteq Places(r)
  <2>1. CartsOf(r)' \subseteq CartsOf(r)
    BY <1>1 DEF CartsOf, Clearing, CartOf
  <2>2. HeldOf(r)' \subseteq HeldOf(r) /\ ParkingOf(r)' \subseteq ParkingOf(r)
    BY <1>1, <1>3 DEF HeldOf, ParkingOf
  <2>3. SalesOf(r)' \subseteq SalesOf(r)
    BY <1>1, <1>2, <1>5 DEF SalesOf, Sells
  <2>4. QED
    BY <2>1, <2>2, <2>3, PlacesFewer
<1>12. OnePlace'
  BY <1>1, <1>11 DEF OnePlace
<1>13. QED
  BY <1>4, <1>6, <1>7, <1>8, <1>9, <1>10, <1>12

\* The sale of a cart that is confirmed has not been confirmed before.
LEMMA FreshSale ==
  ASSUME TillInv, NEW t \in Tills, CartOf(t) # NoCart,
         pressed[Owner(CartOf(t))] < MaxConfirm
  PROVE  LET s == Owner(CartOf(t))
             sale == Payload(t, pressed[s] + 1)
         IN /\ s \in Shoppers /\ CartOf(t).of = {s}
            /\ sale \in Sale /\ sale.of = s /\ sale.n = pressed[s] + 1
            /\ ~Confirmed(sale)
            /\ pressed[s] \in Nat
<1> USE DEF TillInv
<1> DEFINE s == Owner(CartOf(t))
           sale == Payload(t, pressed[s] + 1)
<1>1. s \in Shoppers /\ CartOf(t).of = {s} /\ CartOf(t).qty \in 1..(MaxQty + 1)
  BY PageFields, CartOwner
<1>2. pressed[s] \in Nat /\ pressed[s] + 1 \in 1..MaxConfirm
  BY <1>1, TillAssumption DEF TillTyped
<1>3. sale \in Sale /\ sale.of = s /\ sale.n = pressed[s] + 1
  BY <1>1, <1>2 DEF Payload, Sale
<1> HIDE DEF sale, s
<1>4. ~Confirmed(sale)
  <2>1. ~ (pressed[s] + 1 <= pressed[s])
    BY <1>2
  <2>2. QED
    BY <1>3, <2>1 DEF SalesNumbered
<1>5. QED
  BY <1>1, <1>2, <1>3, <1>4 DEF sale, s

\* The next confirmation of a shopper is numbered apart from those before.
LEMMA OneMoreNumbered ==
  ASSUME TillInv, NEW s \in Shoppers, NEW sale \in Sale,
         sale.of = s, sale.n = pressed[s] + 1, pressed[s] \in Nat,
         pressed' = [pressed EXCEPT ![s] = @ + 1],
         \A x \in Sale : Confirmed(x)' => Confirmed(x) \/ x = sale
  PROVE  SalesNumbered'
<1> USE DEF TillInv
<1>1. /\ pressed'[s] = pressed[s] + 1
      /\ \A r \in Shoppers : r # s => pressed'[r] = pressed[r]
  BY DEF TillTyped
<1>2. \A x \in Sale : x.n \in Int /\ x.of \in Shoppers
  BY DEF Sale
<1>3. \A x \in Sale : Confirmed(x) => x.n <= pressed[x.of]
  BY DEF SalesNumbered
<1>4. ASSUME NEW x \in Sale, Confirmed(x)' PROVE x.n <= pressed'[x.of]
  <2>1. CASE x = sale
    BY <1>1, <1>2, <2>1
  <2>2. CASE x # sale /\ x.of = s
    <3>1. x.n <= pressed[s] /\ x.n \in Int
      BY <1>2, <1>3, <1>4, <2>2
    <3>2. QED
      BY <1>1, <2>2, <3>1
  <2>3. CASE x # sale /\ x.of # s
    BY <1>1, <1>2, <1>3, <1>4, <2>3
  <2>4. QED
    BY <2>1, <2>2, <2>3
<1>5. ASSUME NEW x \in Sale, Confirmed(x), x.of = s PROVE x.n # sale.n
  <2>1. x.n <= pressed[s] /\ x.n \in Int
    BY <1>2, <1>3, <1>5
  <2>2. QED
    BY <2>1
<1>6. ASSUME NEW x \in Sale, NEW y \in Sale, Confirmed(x)', Confirmed(y)', x.of = y.of, x.n = y.n
      PROVE  x = y
  <2>1. CASE Confirmed(x) /\ Confirmed(y)
    BY <1>6, <2>1 DEF SalesNumbered
  <2>2. CASE ~Confirmed(x) /\ Confirmed(y)
    BY <1>5, <1>6, <2>2
  <2>3. CASE Confirmed(x) /\ ~Confirmed(y)
    BY <1>5, <1>6, <2>3
  <2>4. CASE ~Confirmed(x) /\ ~Confirmed(y)
    BY <1>6, <2>4
  <2>5. QED
    BY <2>1, <2>2, <2>3, <2>4
<1>7. QED
  BY <1>4, <1>6 DEF SalesNumbered

\* The goods of the cart are sold, or on their way to be, and the cart gone or as good as gone.
CartGoes(t, s, sale) ==
  /\ CartOf(t).of = {s} /\ sale.of = s
  /\ unsure' = unsure \cup Entangled(s) /\ server' = server
  /\ \A u \in Tills, r \in Shoppers : u \in CartsOf(r)' => u \in CartsOf(r)
  /\ t \notin CartsOf(s)'
  /\ \A r \in Shoppers : ParkingOf(r)' = ParkingOf(r)
  /\ \A x \in Sale : Sells(x)' => Sells(x) \/ x = sale

\* So the goods go from the cart to the sale.
LEMMA CartSells ==
  ASSUME TillInv, NEW t \in Tills, NEW s \in Shoppers, NEW sale \in Sale, CartGoes(t, s, sale)
  PROVE  OnePlace'
<1> USE DEF TillInv, CartGoes
<1>1. ASSUME NEW r \in Shoppers \ unsure' PROVE \A p, q \in Places(r)' : p = q
  <2>1. HeldOf(r)' = HeldOf(r) /\ ParkingOf(r)' = ParkingOf(r) /\ CartsOf(r)' \subseteq CartsOf(r)
    BY DEF HeldOf, CartsOf
  <2>2. r \in Shoppers \ unsure
    OBVIOUS
  <2>3. CASE r # s
    <3>1. SalesOf(r)' \subseteq SalesOf(r)
      BY <2>3 DEF SalesOf
    <3>2. Places(r)' \subseteq Places(r)
      BY <2>1, <3>1, PlacesFewer
    <3>3. QED
      BY <2>2, <3>2 DEF OnePlace
  <2>4. CASE r = s
    <3>1. t \in CartsOf(r)
      BY <2>4, NoneUnderWay
    <3>2. <<"cart", t>> \in Places(r)
      BY <3>1, PlaceKinds
    <3>3. SalesOf(r)' \subseteq SalesOf(r) \cup {sale}
      BY DEF SalesOf
    <3>4. /\ \A u \in CartsOf(r)' : u \in CartsOf(r) /\ <<"cart", u>> # <<"cart", t>>
          /\ \A h \in HeldOf(r)' : h \in HeldOf(r) /\ <<"held", h>> # <<"cart", t>>
          /\ \A d \in ParkingOf(r)' : d \in ParkingOf(r) /\ <<"parking", d>> # <<"cart", t>>
          /\ \A x \in SalesOf(r)' :
               <<"sale", x>> = <<"sale", sale>>
               \/ (x \in SalesOf(r) /\ <<"sale", x>> # <<"cart", t>>)
      BY <2>1, <2>4, <3>3, KindsApart
    <3>5. QED
      BY <2>2, <3>2, <3>4, GoodsMove
  <2>5. QED
    BY <2>3, <2>4
<1>2. QED
  BY <1>1 DEF OnePlace

\* A fresh sale goes into the queue, with its receipt, or to the server.
LEMMA ConfirmCheckoutKeeps ==
  ASSUME TillInv, NEW t \in Tills, ConfirmCheckout(t)
  PROVE  TillInv'
<1> USE DEF TillInv
<1>0. PICK s, sale, c : /\ s = Owner(CartOf(t)) /\ sale = Payload(t, pressed[s] + 1)
                        /\ c = Checkout(t, sale)
  OBVIOUS
<1> DEFINE
  gone == [page[t] EXCEPT !.cart = NoCart]
  busy == [page[t] EXCEPT !.busy = TRUE]
<1>1. /\ CartOf(t) # NoCart /\ pressed[s] < MaxConfirm
      /\ pressed' = [pressed EXCEPT ![s] = @ + 1]
      /\ unsure' = unsure \cup Entangled(s)
      /\ UNCHANGED <<loop, server, parked>>
  BY <1>0 DEF ConfirmCheckout
<1>2. \/ /\ queue' = [queue EXCEPT ![t] = Append(@, sale)]
         /\ receipts' = receipts \cup {sale}
         /\ page' = [page EXCEPT ![t] = gone] /\ call' = call
      \/ /\ call' = call \cup {c} /\ page' = [page EXCEPT ![t] = busy]
         /\ queue' = queue /\ receipts' = receipts
  BY <1>0 DEF ConfirmCheckout
<1>3. /\ s \in Shoppers /\ CartOf(t).of = {s}
      /\ sale \in Sale /\ sale.of = s /\ sale.n = pressed[s] + 1
      /\ ~Confirmed(sale) /\ pressed[s] \in Nat
  BY <1>0, <1>1, FreshSale
<1>4. /\ c.kind = "checkout" /\ c.by = <<t>> /\ c.at = "sent" /\ c.sale = sale
      /\ c \in CheckoutCall
  BY <1>0, <1>3, SMTT(30) DEF Checkout, CheckoutCall, By, ByPage
<1>5. gone \in Page /\ gone.cart = NoCart /\ busy \in Page /\ busy.cart = CartOf(t)
  BY PageFields, PageWith, PageFlags
<1> HIDE DEF gone, busy
<1>6. pressed' \in [Shoppers -> 0..MaxConfirm] /\ unsure' \subseteq Shoppers
  <2>1. pressed[s] + 1 \in 0..MaxConfirm
    BY <1>1, <1>3, TillAssumption
  <2>2. QED
    BY <1>1, <1>3, <2>1 DEF TillTyped, Entangled
<1>7. \A x \in Sale : Posted(x) => x # sale
  BY <1>3 DEF Confirmed
<1>8. ~Queued(sale) /\ ~ToPost(sale)
  BY <1>3 DEF Confirmed
<1>9. \A x : ToPost(x)' <=> ToPost(x)
  BY <1>1 DEF ToPost
<1>10. CASE /\ queue' = [queue EXCEPT ![t] = Append(@, sale)]
            /\ receipts' = receipts \cup {sale}
            /\ page' = [page EXCEPT ![t] = gone] /\ call' = call
  <2>1. queue[t] \in Seq(Sale) /\ Append(queue[t], sale) \in Seq(Sale)
        /\ ToSet(Append(queue[t], sale)) = ToSet(queue[t]) \cup {sale}
    BY <1>3, QueueChanges DEF TillTyped
  <2>2. /\ queue' \in [Tills -> Seq(Sale)]
        /\ ToSet(queue'[t]) = ToSet(queue[t]) \cup {sale}
        /\ \A u \in Tills \ {t} : queue'[u] = queue[u]
    BY <1>10, <2>1 DEF TillTyped
  <2>3. \A x : Queued(x)' <=> Queued(x) \/ x = sale
    BY <2>2 DEF Queued
  <2>4. page' \in [Tills -> Page] /\ CartsDrop /\ CartOf(t)' = NoCart
    BY <1>5, <1>10, PageKeeps, PageSet
  <2>5. TillTyped'
    BY <1>1, <1>3, <1>6, <1>10, <2>2, <2>4 DEF TillTyped
  <2>6. StockTold' /\ ReceiptsBacked' /\ AnswersAreTrue' /\ ParkedCounted' /\ LoopsWait'
    BY <1>1, <1>10, <2>3
       DEF StockTold, ReceiptsBacked, AnswersAreTrue, ParkedCounted, LoopsWait
  <2>7. SalesNumbered'
    <3>1. \A x \in Sale : Confirmed(x)' => Confirmed(x) \/ x = sale
      BY <1>1, <1>9, <1>10, <2>3 DEF Confirmed, Posted
    <3>2. QED
      BY <1>1, <1>3, <3>1, OneMoreNumbered
  <2>8. PagePostsAlone'
    <3>1. \A d \in call : d.kind = "checkout" => d.sale # sale
      BY <1>3 DEF Confirmed, Posted
    <3>2. QED
      BY <1>9, <1>10, <2>3, <3>1 DEF PagePostsAlone
  <2>9. OnePlace'
    <3>1. \A u \in Tills, r \in Shoppers : u \in CartsOf(r)' => u \in CartsOf(r)
      BY <1>10, <2>4 DEF CartsOf, Clearing, CartsDrop
    <3>2. t \notin CartsOf(s)'
      BY <2>4 DEF CartsOf, NoCart
    <3>3. \A r \in Shoppers : ParkingOf(r)' = ParkingOf(r)
      BY <1>10 DEF ParkingOf
    <3>4. \A x \in Sale : Sells(x)' => Sells(x) \/ x = sale
      BY <1>1, <1>9, <1>10, <2>3 DEF Sells, Sending
    <3>5. CartGoes(t, s, sale)
      BY <1>1, <1>3, <3>1, <3>2, <3>3, <3>4 DEF CartGoes
    <3>6. QED
      BY <1>3, <3>5, CartSells
  <2>10. QED
    BY <2>5, <2>6, <2>7, <2>8, <2>9
<1>11. CASE /\ call' = call \cup {c} /\ page' = [page EXCEPT ![t] = busy]
            /\ queue' = queue /\ receipts' = receipts
  <2>1. page' \in [Tills -> Page] /\ CartsDrop
    BY <1>5, <1>11, PageKeeps
  <2>2. \A x : /\ Queued(x)' <=> Queued(x)
               /\ Posted(x)' => Posted(x) \/ x = sale
               /\ Sending(x)' => Sending(x) \/ x = sale
    BY <1>4, <1>11 DEF Queued, Posted, Sending
  <2>3. TillTyped'
    BY <1>1, <1>4, <1>6, <1>11, <2>1 DEF TillTyped
  <2>4. StockTold' /\ ReceiptsBacked' /\ AnswersAreTrue' /\ ParkedCounted'
    BY <1>1, <1>4, <1>11, <2>2 DEF StockTold, ReceiptsBacked, AnswersAreTrue, ParkedCounted
  <2>5. SalesNumbered'
    <3>1. \A x \in Sale : Confirmed(x)' => Confirmed(x) \/ x = sale
      BY <1>1, <1>9, <1>11, <2>2 DEF Confirmed
    <3>2. QED
      BY <1>1, <1>3, <3>1, OneMoreNumbered
  <2>6. PagePostsAlone'
    <3>1. \A d \in call : d.kind = "checkout" => d.sale # sale
      BY <1>3 DEF Confirmed, Posted
    <3>2. QED
      BY <1>4, <1>8, <1>9, <1>11, <2>2, <3>1 DEF PagePostsAlone
  <2>7. LoopsWait'
    <3>1. \A u \in Tills, l \in Loops : ~OfLoop(u, l, c)
      BY <1>4, ByApart DEF OfLoop
    <3>2. QED
      BY <1>1, <1>11, <3>1 DEF LoopsWait
  <2>8. OnePlace'
    <3>1. \A u \in Tills, r \in Shoppers : u \in CartsOf(r)' => u \in CartsOf(r)
      BY <1>11, <2>1 DEF CartsOf, Clearing, CartsDrop
    <3>2. t \notin CartsOf(s)'
      <4>1. c \in call' /\ c.by = <<t>> /\ c.sale.of = s /\ c.at # "refused"
        BY <1>3, <1>4, <1>11
      <4>2. Clearing(t, s)'
        BY <4>1 DEF Clearing
      <4>3. QED
        BY <4>2 DEF CartsOf
    <3>3. \A r \in Shoppers : ParkingOf(r)' = ParkingOf(r)
      BY <1>4, <1>11 DEF ParkingOf
    <3>4. \A x \in Sale : Sells(x)' => Sells(x) \/ x = sale
      BY <1>1, <1>9, <2>2 DEF Sells
    <3>5. CartGoes(t, s, sale)
      BY <1>1, <1>3, <3>1, <3>2, <3>3, <3>4 DEF CartGoes
    <3>6. QED
      BY <1>3, <3>5, CartSells
  <2>9. QED
    BY <2>3, <2>4, <2>5, <2>6, <2>7, <2>8
<1>12. QED
  BY <1>2, <1>10, <1>11

\* The server got a checkout call c, and e is what is left of it for who waits.
ServedAs(c, e) ==
  /\ c.kind = "checkout" /\ c.at = "sent"
  /\ e \in CheckoutCall /\ e.kind = "checkout" /\ e.by = c.by /\ e.sale = c.sale /\ e.at # "sent"
  /\ call' = (call \ {c}) \cup IF c.by = <<>> THEN {} ELSE {e}
  /\ UNCHANGED <<page, queue, loop, receipts, pressed, parked, unsure>>

\* Whatever the answer, nobody posts or waits for more than before.
LEMMA ServedKeeps ==
  ASSUME TillInv, NEW c \in call, NEW e, ServedAs(c, e),
         server.sold \subseteq server'.sold, server'.sold \subseteq server.sold \cup {c.sale},
         server'.held = server.held, e.at = "stored" => c.sale \in server'.sold
  PROVE  /\ SalesNumbered' /\ PagePostsAlone' /\ AnswersAreTrue'
         /\ ReceiptsBacked' /\ ParkedCounted' /\ LoopsWait'
         /\ call' \subseteq CheckoutCall \cup HoldCall
         /\ \A d \in call' : d \in call \ {c} \/ d = e
<1> USE DEF TillInv
<1>1. /\ c.kind = "checkout" /\ c.at = "sent" /\ c.sale \in Sale
      /\ e \in CheckoutCall /\ e.kind = "checkout" /\ e.by = c.by /\ e.sale = c.sale
      /\ e.at # "sent"
      /\ UNCHANGED <<page, queue, loop, receipts, pressed, parked, unsure>>
      /\ \A d \in call' : d \in call \ {c} \/ d = e
  BY CallFields DEF ServedAs
<1>2. call' \subseteq CheckoutCall \cup HoldCall
  BY <1>1 DEF TillTyped
<1>3. \A x : /\ Queued(x)' <=> Queued(x)
             /\ ToPost(x)' <=> ToPost(x)
             /\ Posted(x)' => Posted(x)
  BY <1>1 DEF Queued, ToPost, Posted
<1>4. SalesNumbered'
  <2>1. Posted(c.sale)
    BY <1>1 DEF Posted
  <2>2. \A x : Confirmed(x)' => Confirmed(x)
    BY <1>1, <1>3, <2>1 DEF Confirmed
  <2>3. QED
    BY <1>1, <2>2 DEF SalesNumbered
<1>5. PagePostsAlone'
  <2> SUFFICES ASSUME NEW d \in call', d.kind = "checkout", d.by \in ByPage
               PROVE  /\ ~Queued(d.sale) /\ ~ToPost(d.sale)
                      /\ \A f \in call' : f.kind = "checkout" /\ f.sale = d.sale => f = d
    BY <1>3 DEF PagePostsAlone
  <2>1. CASE d = e
    <3>1. /\ ~Queued(c.sale) /\ ~ToPost(c.sale)
          /\ \A f \in call : f.kind = "checkout" /\ f.sale = c.sale => f = c
      BY <1>1, <2>1 DEF PagePostsAlone
    <3>2. QED
      BY <1>1, <2>1, <3>1
  <2>2. CASE d \in call \ {c}
    <3>1. /\ ~Queued(d.sale) /\ ~ToPost(d.sale)
          /\ \A f \in call : f.kind = "checkout" /\ f.sale = d.sale => f = d
      BY <2>2 DEF PagePostsAlone
    <3>2. d.sale # c.sale
      BY <1>1, <2>2, <3>1
    <3>3. QED
      BY <1>1, <3>1, <3>2
  <2>3. QED
    BY <1>1, <2>1, <2>2
<1>6. AnswersAreTrue'
  BY <1>1 DEF AnswersAreTrue
<1>7. ReceiptsBacked'
  BY <1>1, <1>3 DEF ReceiptsBacked
<1>8. ParkedCounted'
  BY <1>1 DEF ParkedCounted
<1>9. LoopsWait'
  <2> SUFFICES ASSUME NEW u \in Tills, NEW l \in Loops, NEW d \in call', OfLoop(u, l, d)
               PROVE  /\ loop[u][l].on /\ loop[u][l].todo # <<>>
                      /\ \A f \in call' : OfLoop(u, l, f) => f = d
    BY <1>1 DEF LoopsWait
  <2>1. CASE d = e
    BY <1>1, <2>1 DEF LoopsWait, OfLoop
  <2>2. CASE d \in call \ {c}
    BY <1>1, <2>2 DEF LoopsWait, OfLoop
  <2>3. QED
    BY <1>1, <2>1, <2>2
<1>10. QED
  BY <1>1, <1>2, <1>4, <1>5, <1>6, <1>7, <1>8, <1>9

\* A page that has been served goes on waiting for its answer, and its cart is as good as gone
\* while that is not a refusal.
LEMMA ServedPlaces ==
  ASSUME TillInv, NEW c \in call, NEW e, ServedAs(c, e),
         server'.sold \subseteq server.sold \cup {c.sale}, server'.held = server.held
  PROVE  \A s \in Shoppers :
           /\ HeldOf(s)' \subseteq HeldOf(s) /\ ParkingOf(s)' \subseteq ParkingOf(s)
           /\ SalesOf(s)' \subseteq SalesOf(s)
           /\ \A u \in CartsOf(s)' : \/ u \in CartsOf(s)
                                     \/ s = c.sale.of /\ c.by = <<u>> /\ e.at = "refused"
<1> USE DEF TillInv
<1>1. /\ c.kind = "checkout" /\ c.at = "sent" /\ c.sale \in Sale
      /\ e \in CheckoutCall /\ e.kind = "checkout" /\ e.by = c.by /\ e.sale = c.sale
      /\ e.at # "sent"
      /\ UNCHANGED <<page, queue, loop, receipts, pressed, parked, unsure>>
      /\ \A d \in call' : d \in call \ {c} \/ d = e
      /\ \A d \in call : d \in call' \/ d = c
      /\ c.by # <<>> => e \in call'
  BY CallFields DEF ServedAs
<1> TAKE s \in Shoppers
<1>2. HeldOf(s)' \subseteq HeldOf(s)
  BY DEF HeldOf
<1>3. ParkingOf(s)' \subseteq ParkingOf(s)
  BY <1>1 DEF ParkingOf
<1>4. SalesOf(s)' \subseteq SalesOf(s)
  <2>1. Sending(c.sale)
    BY <1>1 DEF Sending
  <2>2. \A x : Sending(x)' => Sending(x)
    BY <1>1 DEF Sending
  <2>3. \A x : (Queued(x)' <=> Queued(x)) /\ (ToPost(x)' <=> ToPost(x))
    BY <1>1 DEF Queued, ToPost
  <2>4. QED
    BY <2>1, <2>2, <2>3 DEF SalesOf, Sells
<1>5. ASSUME NEW u \in CartsOf(s)', u \notin CartsOf(s)
      PROVE  s = c.sale.of /\ c.by = <<u>> /\ e.at = "refused"
  <2>1. u \in Tills /\ CartOf(u).of = {s} /\ ~Clearing(u, s)'
    BY <1>1, <1>5 DEF CartsOf, CartOf
  <2>2. PICK d \in call : d.by = <<u>> /\ d.sale.of = s /\ d.at # "refused"
    BY <1>5, <2>1 DEF CartsOf, Clearing
  <2>3. d = c
    BY <1>1, <2>1, <2>2 DEF Clearing
  <2>4. e \in call' /\ e.by = <<u>> /\ e.sale.of = s
    BY <1>1, <2>2, <2>3, ByApart
  <2>5. e.at = "refused"
    BY <2>1, <2>4 DEF Clearing
  <2>6. QED
    BY <2>2, <2>3, <2>5
<1>6. QED
  BY <1>2, <1>3, <1>4, <1>5

\* The sale is sold, now or before, or refused: then its goods are in the cart again.
LEMMA ServeKeeps ==
  ASSUME TillInv, NEW c \in call, Serve(c)
  PROVE  TillInv'
<1> USE DEF TillInv
<1>0. PICK e : e = [c EXCEPT !.at = IF Stored(c.sale) \/ c.sale.qty <= server.stock
                                    THEN "stored" ELSE "refused"]
  OBVIOUS
<1>1. /\ c.kind = "checkout" /\ c.at = "sent" /\ c.sale \in Sale /\ c \in CheckoutCall
  BY CallFields DEF Serve
<1>2. /\ e \in CheckoutCall /\ e.kind = "checkout" /\ e.by = c.by /\ e.sale = c.sale
      /\ e.at = IF Stored(c.sale) \/ c.sale.qty <= server.stock THEN "stored" ELSE "refused"
  BY <1>0, <1>1 DEF CheckoutCall
<1>3. ServedAs(c, e)
  BY <1>0, <1>1, <1>2 DEF ServedAs, Serve
<1>4. server \in [sold : SUBSET Sale, refused : SUBSET Sale, held : SUBSET Parked, stock : 0..Stock]
  BY DEF TillTyped
<1>5. c.sale.qty \in Nat /\ server.stock \in Nat /\ Stock \in Nat /\ server.stock <= Stock
  BY <1>1, <1>4, TillAssumption DEF Sale
<1>6. \A x \in server.sold : x \in Sale
  BY <1>4
<1>7. Stored(c.sale) => c.sale \in server.sold
  <2> SUFFICES ASSUME NEW x \in server.sold, x.of = c.sale.of, x.n = c.sale.n PROVE x = c.sale
    BY DEF Stored
  <2>1. Confirmed(x) /\ Confirmed(c.sale)
    BY <1>1 DEF Confirmed, Posted
  <2>2. QED
    BY <1>1, <1>6, <2>1 DEF SalesNumbered
<1>8. c.sale \in server.sold => Stored(c.sale)
  BY DEF Stored
<1>9. /\ server'.held = server.held /\ server.sold \subseteq server'.sold
      /\ server'.sold \subseteq server.sold \cup {c.sale}
      /\ server' \in [sold : SUBSET Sale, refused : SUBSET Sale, held : SUBSET Parked,
                      stock : 0..Stock]
      /\ e.at = "stored" => c.sale \in server'.sold
      /\ StockTold'
  <2>1. CASE Stored(c.sale)
    <3>1. server' = server
      BY <2>1 DEF Serve
    <3>2. QED
      BY <1>4, <1>7, <2>1, <3>1 DEF StockTold
  <2>2. CASE ~Stored(c.sale) /\ c.sale.qty <= server.stock
    <3>1. server' = [server EXCEPT !.sold = @ \cup {c.sale}, !.stock = @ - c.sale.qty]
      BY <2>2 DEF Serve
    <3>2. server.stock - c.sale.qty \in 0..Stock
      BY <1>5, <2>2
    <3>3. /\ server'.held = server.held /\ server'.sold = server.sold \cup {c.sale}
          /\ server'.stock = server.stock - c.sale.qty
          /\ server' \in [sold : SUBSET Sale, refused : SUBSET Sale, held : SUBSET Parked,
                          stock : 0..Stock]
      BY <1>1, <1>4, <3>1, <3>2
    <3>4. StockTold'
      <4> DEFINE f == [s \in Sale |-> s.qty]
                 old == SumFunctionOnSet(f, server.sold)
      <4>1. \A x \in server.sold \cup {c.sale} : f[x] \in Int
        BY <1>1, <1>6 DEF Sale
      <4>2. f[c.sale] = c.sale.qty
        BY <1>1
      <4>3. \A x \in server.sold : f[x] \in Int
        BY <4>1
      <4> HIDE DEF f
      <4>4. IsFiniteSet(server.sold) /\ server.stock = Stock - old /\ old \in Int
        BY <4>3, SumInt DEF StockTold, f
      <4>5. c.sale \notin server.sold
        BY <1>8, <2>2
      <4>6. SumFunctionOnSet(f, server.sold \cup {c.sale}) = f[c.sale] + old
        BY <4>1, <4>4, <4>5, SumAdd
      <4>7. IsFiniteSet(server.sold \cup {c.sale})
        BY <4>4, FS_AddElement
      <4> HIDE DEF old
      <4>8. server.stock - c.sale.qty = Stock - (f[c.sale] + old)
        BY <1>5, <4>2, <4>4
      <4>9. server'.stock = Stock - SumFunctionOnSet(f, server'.sold)
        BY <3>3, <4>6, <4>8
      <4>10. QED
        BY <3>3, <4>7, <4>9 DEF StockTold, f
    <3>5. QED
      BY <3>3, <3>4
  <2>3. CASE ~Stored(c.sale) /\ ~(c.sale.qty <= server.stock)
    <3>1. server' = [server EXCEPT !.refused = @ \cup {c.sale}]
      BY <2>3 DEF Serve
    <3>2. /\ server'.held = server.held /\ server'.sold = server.sold
          /\ server'.stock = server.stock
          /\ server' \in [sold : SUBSET Sale, refused : SUBSET Sale, held : SUBSET Parked,
                          stock : 0..Stock]
      BY <1>1, <1>4, <3>1
    <3>3. QED
      BY <1>2, <2>3, <3>2 DEF StockTold
  <2>4. QED
    BY <2>1, <2>2, <2>3
<1>10. /\ SalesNumbered' /\ PagePostsAlone' /\ AnswersAreTrue'
       /\ ReceiptsBacked' /\ ParkedCounted' /\ LoopsWait'
       /\ call' \subseteq CheckoutCall \cup HoldCall
       /\ \A d \in call' : d \in call \ {c} \/ d = e
  BY <1>3, <1>9, ServedKeeps
<1>11. UNCHANGED <<page, queue, loop, receipts, pressed, parked, unsure>>
  BY <1>3 DEF ServedAs
<1>12. TillTyped'
  BY <1>9, <1>10, <1>11 DEF TillTyped
<1>13. ASSUME NEW s \in Shoppers \ unsure' PROVE \A p, q \in Places(s)' : p = q
  <2>1. /\ HeldOf(s)' \subseteq HeldOf(s) /\ ParkingOf(s)' \subseteq ParkingOf(s)
        /\ SalesOf(s)' \subseteq SalesOf(s)
        /\ \A u \in CartsOf(s)' : \/ u \in CartsOf(s)
                                  \/ s = c.sale.of /\ c.by = <<u>> /\ e.at = "refused"
    BY <1>3, <1>9, ServedPlaces
  <2>2. s \in Shoppers \ unsure
    BY <1>11
  <2>3. CASE \A u \in CartsOf(s)' : u \in CartsOf(s)
    <3>1. Places(s)' \subseteq Places(s)
      BY <2>1, <2>3, PlacesFewer
    <3>2. QED
      BY <2>2, <3>1 DEF OnePlace
  <2>4. CASE ~ \A u \in CartsOf(s)' : u \in CartsOf(s)
    <3>1. PICK t \in CartsOf(s)' : s = c.sale.of /\ c.by = <<t>> /\ e.at = "refused"
      BY <2>1, <2>4
    <3>2. t \in Tills
      BY DEF CartsOf
    <3>3. \A u \in CartsOf(s)' : u \in CartsOf(s) \/ u = t
      BY <2>1, <3>1, ByApart
    <3>4. c.sale \in SalesOf(s)
      BY <1>1, <3>1 DEF SalesOf, Sells, Sending
    <3>5. c.sale \notin SalesOf(s)'
      <4>1. c.by \in ByPage
        BY <3>1, <3>2 DEF ByPage
      <4>2. /\ ~Queued(c.sale) /\ ~ToPost(c.sale)
            /\ \A d \in call : d.kind = "checkout" /\ d.sale = c.sale => d = c
        BY <1>1, <4>1 DEF PagePostsAlone
      <4>3. ~Queued(c.sale)' /\ ~ToPost(c.sale)'
        BY <1>11, <4>2 DEF Queued, ToPost
      <4>4. ~Sending(c.sale)'
        BY <1>10, <3>1, <4>2 DEF Sending
      <4>5. c.sale \notin server'.sold
        <5>1. ~Stored(c.sale) /\ ~(c.sale.qty <= server.stock)
          BY <1>2, <3>1
        <5>2. server' = [server EXCEPT !.refused = @ \cup {c.sale}]
          BY <5>1 DEF Serve
        <5>3. QED
          BY <1>4, <1>8, <5>1, <5>2
      <4>6. QED
        BY <4>3, <4>4, <4>5 DEF SalesOf, Sells
    <3>6. <<"sale", c.sale>> \in Places(s)
      BY <3>4, PlaceKinds
    <3>7. /\ \A u \in CartsOf(s)' :
               <<"cart", u>> = <<"cart", t>>
               \/ (u \in CartsOf(s) /\ <<"cart", u>> # <<"sale", c.sale>>)
          /\ \A h \in HeldOf(s)' : h \in HeldOf(s) /\ <<"held", h>> # <<"sale", c.sale>>
          /\ \A d \in ParkingOf(s)' :
               d \in ParkingOf(s) /\ <<"parking", d>> # <<"sale", c.sale>>
          /\ \A x \in SalesOf(s)' : x \in SalesOf(s) /\ <<"sale", x>> # <<"sale", c.sale>>
      BY <2>1, <3>3, <3>5, KindsApart
    <3>8. QED
      BY <2>2, <3>6, <3>7, GoodsMove
  <2>5. QED
    BY <2>3, <2>4
<1>14. OnePlace'
  BY <1>13 DEF OnePlace
<1>15. QED
  BY <1>9, <1>10, <1>12, <1>14
-----------------------------------------------------------------------------
(* Till: the results *)

\* Every step keeps the invariant.
LEMMA TillStep == TillInv /\ [Next]_vars => TillInv'
<1> SUFFICES ASSUME TillInv, [Next]_vars PROVE TillInv'
  OBVIOUS
<1>1. CASE UNCHANGED vars
  <2>1. UNCHANGED <<page, queue, loop, call, server, receipts, pressed, parked, unsure>>
    BY <1>1 DEF vars
  <2>2. page' \in [Tills -> Page] /\ unsure' = unsure /\ CartsDrop
    BY <2>1 DEF TillInv, TillTyped, CartsDrop, CartOf
  <2>3. TillTyped' /\ Lessens /\ CallsDrop /\ LoopsWait'
    BY <2>1, <2>2, PageOnly
  <2>4. QED
    BY <2>2, <2>3, LessStep
<1>2. ASSUME NEW t \in Tills, PageStep(t) PROVE TillInv'
  <2>1. ASSUME NEW s \in Shoppers, AddToCart(t, s) \/ ScanBarcode(t, s) PROVE TillInv'
    BY <2>1, AddToCartKeeps, ScanBarcodeKeeps
  <2>2. ASSUME NEW q \in 0..MaxQty + 1, UpdateQuantity(t, q) PROVE TillInv'
    BY <2>2, UpdateQuantityKeeps
  <2>3. CASE FetchProducts(t)
    BY <2>3, FetchProductsKeeps
  <2>4. CASE ConfirmCheckout(t)
    BY <2>4, ConfirmCheckoutKeeps
  <2>5. CASE HoldBill(t)
    BY <2>5, HoldBillKeeps
  <2>6. ASSUME NEW h \in server.held, RestoreHeldBill(t, h) PROVE TillInv'
    BY <2>6, RestoreHeldBillKeeps
  <2>7. CASE GoOffline(t)
    BY <2>7, GoOfflineKeeps
  <2>8. CASE GoOnline(t)
    BY <2>8, GoOnlineKeeps
  <2>9. CASE SyncPending(t)
    BY <2>9, SyncPendingKeeps
  <2>10. CASE Reload(t)
    BY <2>10, ReloadKeeps
  <2>11. QED
    BY <1>2, <2>1, <2>2, <2>3, <2>4, <2>5, <2>6, <2>7, <2>8, <2>9, <2>10 DEF PageStep
<1>3. ASSUME NEW t \in Tills, Answered(t) PROVE TillInv'
  <2>1. PICK c \in call : \/ CheckoutAnswered(t, c) \/ CheckoutLost(t, c)
                          \/ HoldAnswered(t, c) \/ HoldLost(t, c)
    BY <1>3 DEF Answered
  <2>2. QED
    BY <2>1, CheckoutAnsweredKeeps, CheckoutLostKeeps, HoldAnsweredKeeps, HoldLostKeeps
<1>4. ASSUME NEW t \in Tills, NEW l \in Loops, LoopStep(t, l) PROVE TillInv'
  <2>1. CASE PostQueued(t, l)
    BY <2>1, PostQueuedKeeps
  <2>2. CASE EndLoop(t, l)
    BY <2>2, EndLoopKeeps
  <2>3. ASSUME NEW c \in call, QueuedAnswered(t, l, c) \/ QueuedLost(t, l, c) PROVE TillInv'
    BY <2>3, QueuedAnsweredKeeps, QueuedLostKeeps
  <2>4. QED
    BY <1>4, <2>1, <2>2, <2>3 DEF LoopStep
<1>5. CASE ServerStep
  BY <1>5, ServeKeeps, StoreHeldKeeps DEF ServerStep
<1>6. ASSUME NEW h \in server.held, DeleteHeldBill(h) PROVE TillInv'
  BY <1>6, DeleteHeldBillKeeps
<1>7. QED
  BY <1>1, <1>2, <1>3, <1>4, <1>5, <1>6 DEF Next

\* So it always holds.
LEMMA TillHolds == Spec => []TillInv
<1>1. Init => TillInv
  BY TillStarts
<1>2. TillInv /\ [Next]_vars => TillInv'
  BY TillStep
<1>3. QED
  BY <1>1, <1>2, PTL DEF Spec

\* For any number of browsers, cashiers, shoppers, sync loops, faults and reloads: a confirmed
\* sale is taken out of stock once, however often it is posted, and no stock is sold that is
\* not there.
THEOREM ConfirmationsSoldOnce == Spec => []EachConfirmationSoldOnce
<1>1. ASSUME TillInv PROVE EachConfirmationSoldOnce
  <2>1. /\ page \in [Tills -> Page]
        /\ server.sold \subseteq Sale /\ server.stock \in 0..Stock
    BY <1>1 DEF TillInv, TillTyped
  <2>2. \A t \in Tills : ToSet(queue[t]) \subseteq Sale
    BY <1>1, QueueChanges DEF TillInv, TillTyped
  <2>3. TypeOK
    BY <2>1, <2>2 DEF TypeOK, Page
  <2>4. server.stock = Stock - SumFunctionOnSet([s \in Sale |-> s.qty], server.sold)
    BY <1>1 DEF TillInv, StockTold
  <2>5. server.stock >= 0
    BY <2>1
  <2>6. QED
    BY <2>3, <2>4, <2>5 DEF EachConfirmationSoldOnce
<1>2. QED
  BY <1>1, TillHolds, PTL

\* Every receipt printed is for a sale that is stored or still in the queue of its browser,
\* whatever is lost, answered late, posted twice or reloaded.
THEOREM ReceiptsMeanSales == Spec => []ReceiptMeansSale
<1>1. ASSUME TillInv PROVE ReceiptMeansSale
  BY <1>1 DEF TillInv, ReceiptsBacked, Queued, ReceiptMeansSale
<1>2. QED
  BY <1>1, TillHolds, PTL

\* A shopper whose calls never overlapped and were all answered is sold one cart at most,
\* however often it was parked, taken up again, refused and confirmed, at whichever tills.
THEOREM ShoppersPayOnce == Spec => []OneSalePerShopper
<1>1. ASSUME TillInv PROVE OneSalePerShopper
  <2> SUFFICES ASSUME NEW s \in Shoppers \ unsure
               PROVE  Cardinality({x \in server.sold : x.of = s}) <= 1
    BY DEF OneSalePerShopper
  <2> DEFINE mine == {x \in server.sold : x.of = s}
  <2>1. \A x \in mine : <<"sale", x>> \in Places(s)
    <3>1. \A x \in mine : x \in SalesOf(s)
      BY <1>1 DEF TillInv, TillTyped, SalesOf, Sells
    <3>2. QED
      BY <3>1, PlaceKinds
  <2>2. \A x, y \in mine : x = y
    <3>1. \A p, q \in Places(s) : p = q
      BY <1>1 DEF TillInv, OnePlace
    <3>2. QED
      BY <2>1, <3>1, KindsApart
  <2> HIDE DEF mine
  <2>3. CASE mine = {}
    <3>1. Cardinality(mine) = 0
      BY <2>3, FS_EmptySet
    <3>2. QED
      BY <3>1 DEF mine
  <2>4. CASE mine # {}
    <3>1. PICK x : mine = {x}
      BY <2>2, <2>4
    <3>2. Cardinality(mine) = 1
      BY <3>1, FS_Singleton
    <3>3. QED
      BY <3>2 DEF mine
  <2>5. QED
    BY <2>3, <2>4
<1>2. QED
  BY <1>1, TillHolds, PTL
=============================================================================
