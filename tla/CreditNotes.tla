----------------------------- MODULE CreditNotes -----------------------------
(***************************************************************************)
(* createCreditNote of credit-note.controller, next to the payment         *)
(* handlers of Settlement.  No transaction and no conditional update holds *)
(* its five writes and reads together: the cap is checked, the number      *)
(* counted, and the invoice saved from what was read at the start.         *)
(***************************************************************************)
EXTENDS Settlement

CONSTANT Clerk  \* credit-note requests: each is one execution of the handler

ASSUME CreditAssumption == IsFiniteSet(Clerk)

VARIABLES
  note,  \* the CreditNote collection: the note each request created
  at,    \* where each credit-note request is
  read,  \* what it asks and what it read
  lost,  \* history: invoices settled after they were credited
  mixed  \* history: a request arrived while another was at work

creditVars == <<note, at, read>>
allVars == <<vars, creditVars, lost, mixed>>

NoNote == [inv |-> 0, amount |-> 0, number |-> 0]
Creditable == Payable \cup {"paid"}

CreditInit ==
  /\ Init
  /\ note = [c \in Clerk |-> NoNote]
  /\ at = [c \in Clerk |-> "idle"]
  /\ read = [c \in Clerk |-> [inv |-> 1, amount |-> 0, apply |-> FALSE, due |-> 0,
                              paid |-> 0, number |-> 0]]
  /\ lost = {}
  /\ mixed = FALSE

Issued == {c \in Clerk : note[c].number > 0}
Credited(i) == SumFunction([c \in Clerk |-> IF note[c].inv = i THEN note[c].amount ELSE 0])
Reduction(c) == Min({read[c].due, read[c].amount})

Step1(c, from, to) == at[c] = from /\ at' = [at EXCEPT ![c] = to]
KeepBooks == UNCHANGED <<invoice, payment, balance, pc, arg, dead>>

\* The invoice is read: it must have been issued.
ReadForCredit(c, i, a, apply) ==
  /\ Step1(c, "idle", "check")
  /\ invoice[i].status \in Creditable
  /\ read' = [read EXCEPT ![c] = [inv |-> i, amount |-> a, apply |-> apply,
                                  due |-> invoice[i].due, paid |-> invoice[i].paid,
                                  number |-> 0]]
  /\ UNCHANGED note /\ KeepBooks

\* Mutant of CheckCredit: each note is compared with the total alone.
CheckThisCredit(c) ==
  /\ Step1(c, "check", IF read[c].amount <= Total[read[c].inv] THEN "number" ELSE "done")
  /\ UNCHANGED <<note, read>> /\ KeepBooks

\* The credit of all notes may not exceed the invoice's grand total.
CheckCredit(c) ==
  LET i == read[c].inv IN
  /\ Step1(c, "check", IF read[c].amount <= Total[i] - Credited(i) THEN "number" ELSE "done")
  /\ UNCHANGED <<note, read>> /\ KeepBooks

\* The number counts the notes there are (1001 on in the code, 1 on here).
NumberCredit(c) ==
  /\ Step1(c, "number", "create")
  /\ read' = [read EXCEPT ![c].number = Cardinality(Issued) + 1]
  /\ UNCHANGED note /\ KeepBooks

\* Mutant of CreateNote: no index refuses a number that is taken.
CreateAnyNote(c) ==
  /\ Step1(c, "create", IF read[c].apply THEN "apply" ELSE "done")
  /\ note' = [note EXCEPT ![c] = [inv |-> read[c].inv, amount |-> read[c].amount,
                                  number |-> read[c].number]]
  /\ UNCHANGED read /\ KeepBooks

\* The unique index on the number refuses the second of two equal ones.
CreateNote(c) ==
  LET taken == \E d \in Issued : note[d].number = read[c].number IN
  /\ Step1(c, "create", IF ~taken /\ read[c].apply THEN "apply" ELSE "done")
  /\ note' = IF taken THEN note
             ELSE [note EXCEPT ![c] = [inv |-> read[c].inv, amount |-> read[c].amount,
                                       number |-> read[c].number]]
  /\ UNCHANGED read /\ KeepBooks

\* invoice.save() writes the amount due computed from the one read, and "paid"
\* if that leaves nothing due on what was partly paid when it was read.
ApplyCredit(c) ==
  LET i   == read[c].inv
      due == read[c].due - Reduction(c)
  IN /\ Step1(c, "apply", "post")
     /\ invoice' = [invoice EXCEPT
          ![i].due = IF Reduction(c) = 0 THEN @ ELSE due,
          ![i].status = IF due = 0 /\ read[c].paid > 0 THEN "paid" ELSE @]
     /\ UNCHANGED <<note, read, payment, balance, pc, arg, dead>>

PostCredit(c) ==
  /\ Step1(c, "post", "done")
  /\ balance' = balance - Reduction(c)
  /\ UNCHANGED <<note, read, invoice, payment, pc, arg, dead>>

Busy == \/ \E c \in Clerk : at[c] \notin {"idle", "done"}
        \/ \E r \in Req \ dead : pc[r] \in Working

CreditStep(c) ==
  \/ CheckCredit(c) \/ NumberCredit(c) \/ CreateNote(c) \/ ApplyCredit(c) \/ PostCredit(c)

CreditNext ==
  /\ \/ /\ \/ \E r \in Req : Receive(r) /\ UNCHANGED creditVars
           \/ \E c \in Clerk, i \in Invoice, a \in Amount, apply \in BOOLEAN :
                ReadForCredit(c, i, a, apply)
        /\ mixed' = (mixed \/ Busy)
     \/ /\ \/ \E r \in Req : (Step(r) \/ CutOff(r)) /\ UNCHANGED creditVars
           \/ \E c \in Clerk : CreditStep(c)
        /\ UNCHANGED mixed
  /\ lost' = lost \cup {i \in Invoice : invoice'[i].paid > invoice[i].paid /\ Credited(i) > 0}

CreditSpec == CreditInit /\ [][CreditNext]_allVars
-----------------------------------------------------------------------------
(* Properties *)

\* Credit-note numbers run 1, 2, 3 without gap or repetition, although they are
\* counted before the note is created.
NotesNumberedInARow == {note[c].number : c \in Issued} = 1..Cardinality(Issued)

\* While requests come one at a time, the notes of an invoice never credit more
\* than it was issued for.
CreditWithinInvoice == ~mixed => \A i \in Invoice : Credited(i) <= Total[i]

\* While requests come one at a time, and refunds after their payment's answer, the
\* balance agrees with what the invoices say is due wherever no payment came
\* after a credit (lost says where one did).
CreditLag == SumFunction([c \in Clerk |-> IF at[c] = "post" THEN Reduction(c) ELSE 0])
CreditedInStep ==
  RefundsWait /\ ~mixed /\ lost = {} => balance = Owed + Lag + CreditLag - Untied

\* While requests come one at a time, a credit never makes an invoice ask for
\* more than it was issued for, nor take in more.
CreditNeverInflates ==
  ~mixed => \A i \in Invoice : invoice[i].paid + invoice[i].due <= Total[i]

\* While requests come one at a time, credit moves no money that was not invoiced.
CreditKeepsBooks == CreditWithinInvoice /\ CreditedInStep /\ CreditNeverInflates

(* What comments of the code say and the code does not keep. *)

\* credit-note.controller.ts:113: the credit of all notes never exceeds what was
\* invoiced, also when two are issued at once.
AlwaysWithinInvoice == \A i \in Invoice : Credited(i) <= Total[i]
=============================================================================
