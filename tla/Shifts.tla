-------------------------------- MODULE Shifts --------------------------------
(***************************************************************************)
(* Till shifts of one cashier who works in several windows: openShift,     *)
(* closeShift with the three reads of tallyShift, and what a tally counts: *)
(* sales and expenses, which look for the open shift and are stored later, *)
(* and returns, which are found by the time they were made.                *)
(* Cash is counted by the documents it comes from: a shift's expectedCash  *)
(* is opening cash and the worth of the set `counted'.                     *)
(***************************************************************************)
EXTENDS Integers, Sequences, FiniteSets

CONSTANTS
  Windows,   \* browser windows of the cashier, a request at a time in each
  MaxShifts, \* bound: shifts opened
  MaxDocs    \* bound: sales, expenses and returns stored

ASSUME ShiftsAssumption ==
  /\ {MaxShifts, MaxDocs} \subseteq Nat
  /\ IsFiniteSet(Windows)

VARIABLES
  shift,   \* the shifts, in the order they were opened
  docs,    \* invoices, expenses and returns of the cashier
  at,      \* what the request of each window has read, and does next
  doubled, \* history: two requests to open, or to close, overlapped
  stray    \* history: documents whose shift was counted before they were stored

shiftVars == <<shift, docs, at, doubled, stray>>

Class == {"sale", "expense", "return"}
\* startTime is told by the place of the shift: the n-th one opened.
Shift == [status : {"OPEN", "CLOSED"}, counted : SUBSET (1..MaxDocs)]
\* `shift' is the shiftId of a sale or an expense, and history for a return: the shift open when
\* it was made; `made' is its timestamp, told by the number of shifts opened before it.
Doc == [class : Class, shift : 0..MaxShifts, made : 0..MaxShifts, deleted : BOOLEAN]
Idle == [do |-> "idle"]

ShiftsInit ==
  /\ shift = <<>>
  /\ docs = <<>>
  /\ at = [w \in Windows |-> Idle]
  /\ doubled = FALSE
  /\ stray = {}

\* Mutant of OpenShifts: the status is not asked for.
OpenShiftsAny == DOMAIN shift

OpenShifts == {s \in DOMAIN shift : shift[s].status = "OPEN"}
\* findOne: one of the open shifts, or 0 when there is none.
Found == IF OpenShifts = {} THEN {0} ELSE OpenShifts
Doing(does) == {w \in Windows : at[w].do \in does}
Overlaps(w, do) == Doing({do}) \ {w} # {}
-----------------------------------------------------------------------------
(* openShift *)

MayOpen == OpenShifts = {}

ReadForOpen(w) ==
  /\ at[w] = Idle /\ MayOpen
  /\ Len(shift) + Cardinality(Doing({"open"})) < MaxShifts
  /\ at' = [at EXCEPT ![w] = [do |-> "open"]]
  /\ doubled' = (doubled \/ Overlaps(w, "open"))
  /\ UNCHANGED <<shift, docs, stray>>

CreateShift(w) ==
  /\ at[w].do = "open"
  /\ shift' = Append(shift, [status |-> "OPEN", counted |-> {}])
  /\ at' = [at EXCEPT ![w] = Idle]
  /\ UNCHANGED <<docs, doubled, stray>>
-----------------------------------------------------------------------------
(* closeShift *)

\* Mutant of FoundBy: a return is not compared with the start of the shift.
FoundByAny(class, s) ==
  {d \in DOMAIN docs :
    docs[d].class = class /\ ~docs[d].deleted /\ (class = "return" \/ docs[d].shift = s)}

\* What one of the three reads of tallyShift finds now.
FoundBy(class, s) ==
  {d \in DOMAIN docs :
    /\ docs[d].class = class /\ ~docs[d].deleted
    /\ IF class = "return" THEN docs[d].made >= s ELSE docs[d].shift = s}

ReadForClose(w) ==
  /\ at[w] = Idle
  /\ \E s \in OpenShifts : at' = [at EXCEPT ![w] = [do |-> "close", of |-> s, read |-> {}, found |-> {}]]
  /\ doubled' = (doubled \/ Overlaps(w, "close"))
  /\ UNCHANGED <<shift, docs, stray>>

Tally(w, class) ==
  /\ at[w].do = "close" /\ class \notin at[w].read
  /\ at' = [at EXCEPT ![w].read = @ \cup {class},
                      ![w].found = @ \cup FoundBy(class, at[w].of)]
  /\ UNCHANGED <<shift, docs, doubled, stray>>

\* shift.save(): whatever has become of the shift since it was read.
CloseShift(w) ==
  /\ at[w].do = "close" /\ at[w].read = Class
  /\ shift' = [shift EXCEPT ![at[w].of] = [status |-> "CLOSED", counted |-> at[w].found]]
  /\ at' = [at EXCEPT ![w] = Idle]
  /\ UNCHANGED <<docs, doubled, stray>>
-----------------------------------------------------------------------------
(* posCheckout, createExpense, processReturn *)

\* Whose sale, expense or return it will be.  A request for a sale may name its shift, and no one
\* asks whether that is open, or of this cashier (else 0).
ShiftFor(class) == Found \cup (IF class = "sale" THEN 0..Len(shift) ELSE {})

\* A sale that names none and an expense look for the open shift; a return gets its timestamp.
Begin(w, class) ==
  /\ at[w] = Idle /\ Len(docs) + Cardinality(Doing(Class)) < MaxDocs
  /\ \E s \in ShiftFor(class) :
       at' = [at EXCEPT ![w] = [do |-> class, shift |-> s,
                                made |-> IF class = "return" THEN Len(shift) ELSE 0]]
  /\ UNCHANGED <<shift, docs, doubled, stray>>

\* Has the shift been closed, or has a window that closes it read this class already?
CountedBy(s, class) ==
  \/ shift[s].status = "CLOSED"
  \/ \E v \in Windows : at[v].do = "close" /\ at[v].of = s /\ class \in at[v].read

Store(w) ==
  /\ at[w].do \in Class
  /\ docs' = Append(docs, [class |-> at[w].do, shift |-> at[w].shift, made |-> at[w].made,
                           deleted |-> FALSE])
  /\ stray' = IF at[w].shift # 0 /\ CountedBy(at[w].shift, at[w].do)
              THEN stray \cup {Len(docs')} ELSE stray
  /\ at' = [at EXCEPT ![w] = Idle]
  /\ UNCHANGED <<shift, doubled>>

DeleteExpense(d) ==
  /\ docs[d].class = "expense" /\ ~docs[d].deleted
  /\ docs' = [docs EXCEPT ![d].deleted = TRUE]
  /\ UNCHANGED <<shift, at, doubled, stray>>
-----------------------------------------------------------------------------
ShiftsNext ==
  \/ \E w \in Windows :
       \/ ReadForOpen(w) \/ CreateShift(w) \/ ReadForClose(w) \/ CloseShift(w) \/ Store(w)
       \/ \E class \in Class : Tally(w, class) \/ Begin(w, class)
  \/ \E d \in DOMAIN docs : DeleteExpense(d)

ShiftsSpec == ShiftsInit /\ [][ShiftsNext]_shiftVars
-----------------------------------------------------------------------------
(* Properties *)

\* A cashier has one open shift, unless two requests to open one overlapped: openShift looks
\* for an open shift and creates one later, and no index forbids a second.
OneOpenShift == Cardinality(OpenShifts) <= 1 \/ doubled

Kept(ds) == {d \in ds : ~docs[d].deleted}
Due(s) == {d \in DOMAIN docs : docs[d].shift = s}

\* What a closed shift has counted is what was made during it: every sale and expense that is
\* booked to it and every return made while it was open is in its totals, and in those of no other
\* shift.  Lost are only documents stored while the shift was being closed, and sales that named
\* it when it was closed already.
ClosedShiftCountsAll ==
  doubled \/ \A s \in DOMAIN shift : shift[s].status = "CLOSED" =>
    Kept(shift[s].counted) = Kept(Due(s)) \ stray

ShiftsTypeOK ==
  /\ shift \in Seq(Shift) /\ docs \in Seq(Doc)
  /\ DOMAIN at = Windows
  /\ doubled \in BOOLEAN /\ stray \subseteq DOMAIN docs

\* Windows of one cashier that open, close and sell at once leave one open shift, and closed
\* ones that have counted all that was made in them.
ShiftsCount == ShiftsTypeOK /\ OneOpenShift /\ ClosedShiftCountsAll

\* A shift once closed is not opened again and its totals stay, unless two requests to close it
\* overlapped: no later sale, return or tally changes what was handed over.
HandedOverStays ==
  [][\A s \in DOMAIN shift : shift[s].status = "CLOSED" /\ ~doubled => shift'[s] = shift[s]]_shiftVars
=============================================================================
