------------------------------- MODULE Composer -------------------------------
(***************************************************************************)
(* The form that composes an invoice, and the preview that follows it: a   *)
(* question is asked a quarter of a second after the last change, and      *)
(* whatever answer comes last is shown.  Answers come in any order or      *)
(* never.                                                                  *)
(***************************************************************************)
EXTENDS Integers, FiniteSets

CONSTANTS
  Offered, \* customers the form offers
  Rows,    \* rows an invoice may have
  MaxAsked \* bound: previews on their way at once

ASSUME ComposerAssumption == MaxAsked \in Nat

Unset == "unset"
BlankRow == "blank" \* a row without description
EmptyForm == [customer |-> Unset, rows |-> {BlankRow}]

VARIABLES
  form,    \* [customer, rows]
  timer,   \* whether a question is due
  asked,   \* questions on their way: [form, last]
  preview, \* what the answer shown tells
  fresh    \* whether it answers the last question

composerVars == <<form, timer, asked, preview, fresh>>

Valid(rows) == rows \ {BlankRow}

\* calculatePreview: what is due follows from the rows, and from where the customer is.
PreviewOf(f) == [customer |-> f.customer, rows |-> Valid(f.rows)]
NoPreview == PreviewOf(EmptyForm)
Wanted(f) == IF Valid(f.rows) = {} THEN NoPreview ELSE PreviewOf(f)

\* A draft is written over what the form holds; it may name no customer.
Prefilled(f, draft) ==
  [customer |-> IF draft.customer = Unset THEN f.customer ELSE draft.customer,
   rows |-> IF draft.rows = {} THEN f.rows ELSE draft.rows]
Drafts == [customer : Offered \cup {Unset}, rows : SUBSET Rows]

ComposerInit ==
  /\ \E d \in Drafts : form = Prefilled(EmptyForm, d)
  /\ timer = TRUE /\ asked = {} /\ preview = NoPreview /\ fresh = TRUE

\* The page is left and opened again, filled from the draft that was applied last. Answers to
\* what the former one asked find nobody.
Reopen(draft) ==
  /\ form' = Prefilled(EmptyForm, draft)
  /\ timer' = TRUE /\ asked' = {} /\ preview' = NoPreview /\ fresh' = TRUE

\* Mutant of Restarts: the preview does not follow the customer.
RestartsOnRows(f) == f.rows # form.rows

Restarts(f) == f # form

Becomes(f) ==
  /\ form' = f
  /\ timer' = (timer \/ Restarts(f))
  /\ UNCHANGED <<asked, preview, fresh>>

SelectCustomer(c) == Becomes([form EXCEPT !.customer = c])

\* handleItemChange, or handleProductSelect: one row becomes another one.
ChangeRow(r, s) == r \in form.rows /\ Becomes([form EXCEPT !.rows = (@ \ {r}) \cup {s}])
addItemRow == Becomes([form EXCEPT !.rows = @ \cup {BlankRow}])
removeItemRow(r) == Cardinality(form.rows) > 1 /\ Becomes([form EXCEPT !.rows = @ \ {r}])

\* The rows read from a scanned bill, some without a text, take the place of those typed
\* meanwhile, if there are any.
Scanned(rows) == Becomes([form EXCEPT !.rows = IF rows = {} THEN @ ELSE rows])

\* A draft is applied while the form is open.
DraftApplied(d) == Becomes(Prefilled(form, d))

\* triggerPreview: rows without description are not asked about.
TimerFires ==
  /\ timer
  /\ timer' = FALSE
  /\ LET older == {[a EXCEPT !.last = FALSE] : a \in asked} IN
     IF Valid(form.rows) = {}
     THEN preview' = NoPreview /\ fresh' = TRUE /\ asked' = older
     ELSE /\ Cardinality(older) < MaxAsked
          /\ asked' = older \cup {[form |-> form, last |-> TRUE]}
          /\ fresh' = FALSE
          /\ UNCHANGED preview
  /\ UNCHANGED form

\* A failure leaves what is shown.
PreviewAnswers(a, ok) ==
  /\ asked' = asked \ {a}
  /\ IF ok THEN preview' = PreviewOf(a.form) /\ fresh' = a.last ELSE UNCHANGED <<preview, fresh>>
  /\ UNCHANGED <<form, timer>>

ComposerNext ==
  \/ \E c \in Offered \cup {Unset} : SelectCustomer(c)
  \/ \E r, s \in Rows \cup {BlankRow} : ChangeRow(r, s)
  \/ addItemRow
  \/ \E r \in form.rows : removeItemRow(r)
  \/ \E rows \in SUBSET (Rows \cup {BlankRow}) : Scanned(rows)
  \/ \E d \in Drafts : DraftApplied(d) \/ Reopen(d)
  \/ TimerFires
  \/ \E a \in asked, ok \in BOOLEAN : PreviewAnswers(a, ok)

ComposerSpec == ComposerInit /\ [][ComposerNext]_composerVars
-----------------------------------------------------------------------------
(* Properties *)

\* Nothing due, and the last question answered: the preview is of the form as it stands.
PreviewTellsForm == ~timer /\ fresh => preview = Wanted(form)
=============================================================================
