--------------------------- MODULE LifecycleProofs ---------------------------
(***************************************************************************)
(* Proofs about InvoiceLifecycle, for every number of invoices and of      *)
(* clients, all amounts, and every request cut off anywhere.               *)
(***************************************************************************)
EXTENDS InvoiceLifecycle, SumLemmas, FiniteSetTheorems, SequenceTheorems, TLAPS

\* What histories a step leaves alone is of no further interest.
USE DEF history

-----------------------------------------------------------------------------
(* The inductive invariant *)

Row == [status : Status, total : Nat, paid : Nat, due : Nat]
Decision == {"pending", "approved", "rejected"}
\* What a request holds; an idle one holds no invoice in particular.
Held == [inv : Invoice \cup {NoArg.inv}, from : Status, to : Status, delta : Int,
         hold : BOOLEAN, stale : BOOLEAN]

Typed ==
  /\ invoice \in [Invoice -> Row]
  /\ queue \in [Invoice -> Seq(Decision)]
  /\ balance \in Int
  /\ pc \in [Req -> {"idle"} \cup Working]
  /\ arg \in [Req -> Held]
  /\ retried \in Nat /\ mixed \in BOOLEAN
  /\ passed \in [Invoice -> SUBSET Nat]
  /\ \A r \in Req : pc[r] # "idle" => arg[r].inv \in Invoice

\* The row of the invoice a request is about.
Its(r) == invoice[arg[r].inv]

\* The endpoint may ask for what the transitions allow, a deletion for more; what a rule
\* holds goes to the queue.
MayApply(r) ==
  /\ arg[r].from # "none"
  /\ \/ arg[r].to \in Allowed[arg[r].from]
     \/ arg[r].to = "cancelled" /\ arg[r].from # "paid"
  /\ arg[r].hold => arg[r].from = "draft" /\ arg[r].to = "pending_approval"
  /\ arg[r].from = "draft" /\ arg[r].to \in {"sent", "approved"} => ~RuleHolds(Its(r).total)

\* Who writes without asking is alone, and finds the invoice as it read it.
Alone(r) ==
  /\ \A q \in Req \ {r} : q \notin dead => pc[q] = "idle"
  /\ Its(r).status = arg[r].from
  /\ pc[r] = "apply" => MayApply(r)
  /\ pc[r] = "edit" => arg[r].from = "draft"
  /\ pc[r] = "mail" => arg[r].from \in {"draft", "approved"}

\* A reviewer has taken the only open entry of the invoice, with its total.
Reviews(r) ==
  /\ Its(r).status # "none" /\ ~Pending(arg[r].inv)
  /\ pc[r] = "approve" => Its(r).total \in passed[arg[r].inv]

WritersFit == Orderly => \A r \in Req \ dead : pc[r] \in Unguarded => Alone(r)
ReviewersFit ==
  Orderly => \A r \in Req \ dead : pc[r] \in {"approve", "reject"} => Reviews(r)

\* HeldIsDecided, invoice by invoice, and with the entries themselves instead of their number.
Decided(i) ==
  /\ invoice[i].status = "pending_approval" /\ i \notin parked => Pending(i) \/ UnderReview(i)
  /\ Pending(i) => invoice[i].status = "pending_approval"
  /\ \A m, n \in DOMAIN queue[i] : queue[i][m] = "pending" /\ queue[i][n] = "pending" => m = n
  /\ /\ i \notin mailed \cup waved
     /\ Receivable(invoice[i].status) \/ invoice[i].status = "paid"
     /\ RuleHolds(invoice[i].total)
     => invoice[i].total \in passed[i]
AllDecided == Orderly => \A i \in Invoice : Decided(i)
-----------------------------------------------------------------------------
(* The operators *)

LEMMA StatusDeltaType ==
  ASSUME NEW a, NEW b, NEW d \in Int
  PROVE  StatusDelta(a, b, d) \in Int
  BY DEF StatusDelta

\* Which transitions there are.
LEMMA AllowedFacts ==
  ASSUME NEW s \in Status, NEW t \in Allowed[s]
  PROVE  /\ t \in Status \ {"none", "paid"}
         /\ s \notin {"none", "void", "cancelled", "paid"}
         /\ t = "pending_approval" => s = "draft"
         /\ s = "pending_approval" => t \in {"approved", "draft", "cancelled"}
         /\ s = "draft" => t \in {"pending_approval", "approved", "sent", "void", "cancelled"}
         /\ s # "draft" /\ s # "pending_approval" /\ Receivable(t) => Receivable(s)
  <1>1. Allowed[s] =
          CASE s = "draft" -> {"pending_approval", "approved", "sent", "void", "cancelled"}
            [] s = "pending_approval" -> {"approved", "draft", "cancelled"}
            [] s = "approved" -> {"sent", "void", "cancelled"}
            [] s = "sent" -> {"partially_paid", "overdue", "void", "cancelled"}
            [] s = "partially_paid" -> {"overdue"}
            [] s = "overdue" -> {"partially_paid"}
            [] OTHER -> {}
    BY DEF Allowed
  <1>2. CASE s = "draft"
    BY <1>1, <1>2 DEF Status
  <1>3. CASE s = "pending_approval"
    BY <1>1, <1>3 DEF Status
  <1>4. CASE s = "approved"
    BY <1>1, <1>4 DEF Status, Receivable
  <1>5. CASE s = "sent"
    BY <1>1, <1>5 DEF Status, Receivable
  <1>6. CASE s = "partially_paid"
    BY <1>1, <1>6 DEF Status, Receivable
  <1>7. CASE s = "overdue"
    BY <1>1, <1>7 DEF Status, Receivable
  <1>8. CASE s \in {"none", "paid", "void", "cancelled"}
    BY <1>1, <1>8
  <1> QED
    BY <1>2, <1>3, <1>4, <1>5, <1>6, <1>7, <1>8 DEF Status

\* Closing the entries of an invoice leaves none open, and changes no decision.
LEMMA ClosedFields ==
  ASSUME NEW q \in Seq(Decision), NEW d \in {"approved", "rejected"}
  PROVE  /\ CloseEntries(q, d) \in Seq(Decision) /\ Len(CloseEntries(q, d)) = Len(q)
         /\ \A n \in DOMAIN q : /\ CloseEntries(q, d)[n] # "pending"
                                /\ q[n] # "pending" => CloseEntries(q, d)[n] = q[n]
  <1>1. /\ Len(q) \in Nat /\ DOMAIN q = 1..Len(q)
        /\ \A n \in DOMAIN q : q[n] \in Decision
    OBVIOUS
  <1>2. \A n \in DOMAIN q : (IF q[n] = "pending" THEN d ELSE q[n]) \in Decision
    BY <1>1 DEF Decision
  <1>3. CloseEntries(q, d) \in [1..Len(q) -> Decision]
    BY <1>1, <1>2 DEF CloseEntries
  <1>4. CloseEntries(q, d) \in Seq(Decision)
    BY <1>1, <1>3, SeqDef
  <1>5. Len(CloseEntries(q, d)) = Len(q)
    BY <1>1, <1>3, <1>4
  <1>6. \A n \in DOMAIN q : /\ CloseEntries(q, d)[n] # "pending"
                            /\ q[n] # "pending" => CloseEntries(q, d)[n] = q[n]
    BY DEF CloseEntries
  <1> QED
    BY <1>4, <1>5, <1>6
-----------------------------------------------------------------------------
(* Types *)

RequestsTyped ==
  /\ pc \in [Req -> {"idle"} \cup Working]
  /\ arg \in [Req -> Held]
  /\ \A r \in Req : pc[r] # "idle" => arg[r].inv \in Invoice

LEMMA FinishTypes ==
  ASSUME Typed, NEW r \in Req, Finish(r)
  PROVE  RequestsTyped'
  <1>1. NoArg \in Held
    BY DEF NoArg, Held, Status
  <1> QED
    BY <1>1 DEF Typed, RequestsTyped, Finish, Goto

LEMMA DecideTypes ==
  ASSUME Typed, NEW r \in Req, NEW h \in Held, h.inv \in Invoice, NEW where \in Working,
         arg' = [arg EXCEPT ![r] = h], Goto(r, where)
  PROVE  RequestsTyped'
  BY DEF Typed, RequestsTyped, Goto

LEMMA SameRequests ==
  ASSUME Typed, UNCHANGED <<pc, arg>>
  PROVE  RequestsTyped'
  BY DEF Typed, RequestsTyped

\* What a request that only reads holds afterwards.
Reading(i, to, delta, hold) ==
  [inv |-> i, from |-> invoice[i].status, to |-> to,
   delta |-> delta, hold |-> hold, stale |-> FALSE]

LEMMA ReadTypes ==
  ASSUME Typed, NEW r \in Req, NEW i \in Invoice,
         \/ \E to \in AskedStatus : ReadForStatus(r, i, to)
         \/ ReadForDelete(r, i) \/ ReadForEdit(r, i) \/ ReadForEmail(r, i)
  PROVE  RequestsTyped'
  <1>1. invoice[i].due \in Int /\ invoice[i].status \in Status
    BY DEF Typed, Row
  <1>2. {"apply", "edit", "mail"} \subseteq Working
        /\ {"pending_approval", "cancelled", "draft", "sent"} \subseteq Status
    BY DEF Working, Status
  <1>3. ASSUME NEW to \in Status, NEW delta \in Int, NEW hold \in BOOLEAN,
               NEW where \in Working, Goto(r, where),
               arg' = [arg EXCEPT ![r] = Reading(i, to, delta, hold)]
        PROVE  RequestsTyped'
    <2>1. Reading(i, to, delta, hold) \in Held /\ Reading(i, to, delta, hold).inv \in Invoice
      BY <1>1 DEF Reading, Held
    <2> QED
      BY <1>3, <2>1, DecideTypes
  <1>4. ASSUME NEW to \in AskedStatus, ReadForStatus(r, i, to) PROVE RequestsTyped'
    <2>1. to \in Status
      BY LifecycleAssumption DEF EndpointStatus, Status
    <2>2. StatusDelta(invoice[i].status, to, invoice[i].due) \in Int /\ 0 \in Int
      BY <1>1, StatusDeltaType
    <2>3. /\ Goto(r, "apply")
          /\ \/ arg' = [arg EXCEPT ![r] = Reading(i, "pending_approval", 0, TRUE)]
             \/ arg' = [arg EXCEPT ![r] = Reading(i, to,
                          StatusDelta(invoice[i].status, to, invoice[i].due), FALSE)]
      BY <1>4 DEF ReadForStatus, Decide, Reading
    <2> QED
      BY <1>2, <1>3, <2>1, <2>2, <2>3
  <1>5. CASE ReadForDelete(r, i)
    <2>1. StatusDelta(invoice[i].status, "cancelled", invoice[i].due) \in Int
      BY <1>1, StatusDeltaType
    <2>2. /\ Goto(r, "apply")
          /\ arg' = [arg EXCEPT ![r] = Reading(i, "cancelled",
                       StatusDelta(invoice[i].status, "cancelled", invoice[i].due), FALSE)]
      BY <1>5 DEF ReadForDelete, Decide, Reading
    <2> QED
      BY <1>2, <1>3, <2>1, <2>2
  <1>6. CASE ReadForEdit(r, i)
    <2>1. /\ Goto(r, "edit") /\ arg' = [arg EXCEPT ![r] = Reading(i, "draft", 0, FALSE)]
          /\ 0 \in Int
      BY <1>6 DEF ReadForEdit, Decide, Reading
    <2> QED
      BY <1>2, <1>3, <2>1
  <1>7. CASE ReadForEmail(r, i)
    <2>1. StatusDelta(invoice[i].status, "sent", invoice[i].due) \in Int
      BY <1>1, StatusDeltaType
    <2>2. /\ Goto(r, "mail")
          /\ arg' = [arg EXCEPT ![r] = Reading(i, "sent",
                       StatusDelta(invoice[i].status, "sent", invoice[i].due), FALSE)]
      BY <1>7 DEF ReadForEmail, Decide, Reading
    <2> QED
      BY <1>2, <1>3, <2>1, <2>2
  <1> QED
    BY <1>4, <1>5, <1>6, <1>7

LEMMA ReceiveTypes ==
  ASSUME Typed, NEW r \in Req, Receive(r)
  PROVE  Typed'
  <1>1. mixed' \in BOOLEAN
    BY DEF Receive
  <1>2. ASSUME UNCHANGED <<invoice, queue, balance, retried, passed>>, RequestsTyped' PROVE Typed'
    BY <1>1, <1>2 DEF Typed, RequestsTyped
  <1>3. ASSUME NEW i \in Invoice, NEW asked \in {"draft", "sent"}, NEW total \in Amount,
               CreateInvoice(r, i, asked, total)
        PROVE  Typed'
    <2> DEFINE status == IF RuleHolds(total) THEN "pending_approval" ELSE asked
    <2>1. total \in Nat /\ status \in Status
      BY LifecycleAssumption DEF Status
    <2>2. /\ invoice' = [invoice EXCEPT ![i] =
                           [status |-> status, total |-> total, paid |-> 0, due |-> total]]
          /\ queue' = [queue EXCEPT ![i] = queue'[i]]
          /\ queue'[i] \in {queue[i], Append(queue[i], "pending")}
          /\ balance' = balance + (IF status = "sent" THEN total ELSE 0)
          /\ UNCHANGED <<pc, arg, retried, passed>>
      BY <1>3 DEF CreateInvoice, Typed
    <2> HIDE DEF status
    <2>3. invoice' \in [Invoice -> Row]
      BY <2>1, <2>2 DEF Typed, Row
    <2>4. queue' \in [Invoice -> Seq(Decision)]
      <3>1. queue[i] \in Seq(Decision) /\ Append(queue[i], "pending") \in Seq(Decision)
        BY DEF Typed, Decision
      <3> QED
        BY <2>2, <3>1 DEF Typed
    <2>5. balance' \in Int
      BY <2>1, <2>2 DEF Typed
    <2> QED
      BY <1>1, <2>2, <2>3, <2>4, <2>5, SameRequests DEF Typed, RequestsTyped
  <1>4. ASSUME NEW i \in Invoice,
               \/ \E to \in AskedStatus : ReadForStatus(r, i, to)
               \/ ReadForDelete(r, i) \/ ReadForEdit(r, i) \/ ReadForEmail(r, i)
        PROVE  Typed'
    <2>1. UNCHANGED <<invoice, queue, balance, retried, passed>>
      BY <1>4 DEF ReadForStatus, ReadForDelete, ReadForEdit, ReadForEmail
    <2> QED
      BY <1>2, <1>4, <2>1, ReadTypes
  <1>5. ASSUME NEW i \in Invoice, NEW n \in DOMAIN queue[i], NEW d \in {"approved", "rejected"},
               Claim(r, i, n, d)
        PROVE  Typed'
    <2>1. RequestsTyped'
      <3> DEFINE h == Reading(i, IF d = "approved" THEN "approved" ELSE "draft", 0, FALSE)
                 where == IF d = "approved" THEN "approve" ELSE "reject"
      <3>1. h \in Held /\ h.inv \in Invoice
        BY DEF Reading, Held, Typed, Row, Status
      <3>2. arg' = [arg EXCEPT ![r] = h] /\ Goto(r, where) /\ where \in Working
        BY <1>5 DEF Claim, Decide, Reading, Working
      <3> HIDE DEF h, where
      <3> QED
        BY <3>1, <3>2, DecideTypes
    <2>2. queue' \in [Invoice -> Seq(Decision)]
      <3>1. queue[i] \in Seq(Decision)
        BY DEF Typed
      <3>2. [queue[i] EXCEPT ![n] = d] \in Seq(Decision)
        BY <3>1 DEF Decision
      <3>3. queue' = [queue EXCEPT ![i] = [queue[i] EXCEPT ![n] = d]]
        BY <1>5 DEF Claim
      <3> QED
        BY <3>2, <3>3 DEF Typed
    <2>3. passed' \in [Invoice -> SUBSET Nat]
      <3>1. invoice[i].total \in Nat
        BY DEF Typed, Row
      <3> QED
        BY <1>5, <3>1 DEF Claim, Typed
    <2> QED
      BY <1>1, <1>5, <2>1, <2>2, <2>3 DEF Claim, Typed, RequestsTyped
  <1>6. ASSUME NEW i \in Invoice, NEW a \in Amount, Pay(r, i, a) PROVE Typed'
    <2> DEFINE left == invoice[i].total - (invoice[i].paid + a)
               row == [invoice[i] EXCEPT !.status = IF left <= 0 THEN "paid" ELSE "partially_paid",
                                         !.paid = invoice[i].paid + a,
                                         !.due = IF left > 0 THEN left ELSE 0]
    <2>1. a \in Nat /\ invoice[i] \in Row
      BY LifecycleAssumption DEF Typed
    <2>2. /\ invoice[i].paid + a \in Nat
          /\ (IF left > 0 THEN left ELSE 0) \in Nat
          /\ (IF left <= 0 THEN "paid" ELSE "partially_paid") \in Status
      BY <2>1 DEF Row, Status
    <2>3. row \in Row
      BY <2>1, <2>2 DEF Row
    <2>4. invoice' = [invoice EXCEPT ![i] = row]
      BY <1>6, <2>1 DEF Pay, Row
    <2> HIDE DEF row, left
    <2>5. invoice' \in [Invoice -> Row]
      BY <2>3, <2>4 DEF Typed
    <2>6. /\ balance' = balance - a /\ UNCHANGED <<queue, pc, arg, retried, passed>>
      BY <1>6 DEF Pay
    <2> QED
      BY <1>1, <2>1, <2>5, <2>6, SameRequests DEF Typed, RequestsTyped
  <1> QED
    BY <1>3, <1>4, <1>5, <1>6 DEF Receive

\* What a request holds, and the rows of its invoice, while it is at work.
LEMMA WorkingFields ==
  ASSUME Typed, NEW r \in Req, pc[r] # "idle"
  PROVE  /\ arg[r].inv \in Invoice /\ Its(r) \in Row /\ arg[r] \in Held
         /\ arg[r].delta \in Int /\ arg[r].to \in Status /\ arg[r].from \in Status
         /\ arg[r].hold \in BOOLEAN
         /\ queue[arg[r].inv] \in Seq(Decision) /\ passed[arg[r].inv] \subseteq Nat
  <1>1. arg[r] \in Held /\ arg[r].inv \in Invoice
    BY DEF Typed
  <1> QED
    BY <1>1 DEF Typed, Its, Held

LEMMA EffectTypes ==
  ASSUME Typed, NEW r \in Req, pc[r] # "idle", StatusEffects(r)
  PROVE  /\ queue' \in [Invoice -> Seq(Decision)]
         /\ balance' \in Int
         /\ passed' \in [Invoice -> SUBSET Nat]
  <1> DEFINE i == arg[r].inv
             closed == IF arg[r].from = "pending_approval"
                         THEN CloseEntries(queue[i], IF arg[r].to = "approved"
                                                       THEN "approved" ELSE "rejected")
                         ELSE queue[i]
  <1>1. i \in Invoice /\ arg[r].delta \in Int /\ queue[i] \in Seq(Decision)
        /\ passed[i] \subseteq Nat /\ Its(r) \in Row
    BY WorkingFields
  <1>2. closed \in Seq(Decision)
    BY <1>1, ClosedFields
  <1>3. /\ queue' = [queue EXCEPT ![i] = IF arg[r].hold THEN Append(closed, "pending") ELSE closed]
        /\ balance' = balance + arg[r].delta
        /\ passed' = [passed EXCEPT ![i] =
                        IF /\ arg[r].from = "pending_approval" /\ arg[r].to = "approved"
                           /\ r \in Manager
                          THEN passed[i] \cup {Its(r).total} ELSE passed[i]]
    BY DEF StatusEffects, Its
  <1> HIDE DEF closed, i
  <1>4. Append(closed, "pending") \in Seq(Decision)
    BY <1>2 DEF Decision
  <1>5. Its(r).total \in Nat
    BY <1>1 DEF Row
  <1>6. queue' \in [Invoice -> Seq(Decision)]
    BY <1>1, <1>2, <1>3, <1>4 DEF Typed
  <1>7. balance' \in Int /\ passed' \in [Invoice -> SUBSET Nat]
    BY <1>1, <1>3, <1>5 DEF Typed
  <1> QED
    BY <1>6, <1>7

\* Only the status of one invoice changes.
LEMMA StatusTypes ==
  ASSUME Typed, NEW i \in Invoice, NEW s \in Status,
         invoice' = [invoice EXCEPT ![i].status = s]
  PROVE  /\ invoice' \in [Invoice -> Row]
         /\ invoice'[i].status = s /\ invoice'[i].total = invoice[i].total
         /\ \A j \in Invoice \ {i} : invoice'[j] = invoice[j]
  <1>1. invoice[i] \in Row
    BY DEF Typed
  <1>2. [invoice[i] EXCEPT !.status = s] \in Row
        /\ [invoice[i] EXCEPT !.status = s].status = s
        /\ [invoice[i] EXCEPT !.status = s].total = invoice[i].total
    BY <1>1 DEF Row
  <1>3. invoice' = [invoice EXCEPT ![i] = [invoice[i] EXCEPT !.status = s]]
    OBVIOUS
  <1> HIDE DEF Row
  <1> QED
    BY <1>2, <1>3 DEF Typed

LEMMA StepTypes ==
  ASSUME Typed, NEW r \in Req, Step(r)
  PROVE  Typed'
  <1>1. mixed' = mixed /\ pc[r] # "idle"
    BY DEF Step, ApplyStatus, ApplyStatusRetried, SaveEdit, MarkSent, PostDelta,
           ApproveInvoice, RejectInvoice, At
  <1>2. /\ arg[r].inv \in Invoice /\ Its(r) \in Row /\ arg[r] \in Held
        /\ arg[r].delta \in Int /\ arg[r].to \in Status /\ arg[r].from \in Status
    BY <1>1, WorkingFields
  <1>3. ASSUME invoice' \in [Invoice -> Row], RequestsTyped',
               UNCHANGED <<queue, balance, retried, passed>>
        PROVE  Typed'
    BY <1>1, <1>3 DEF Typed, RequestsTyped
  <1>4. invoice \in [Invoice -> Row] /\ balance \in Int /\ retried \in Nat
    BY DEF Typed
  <1>5. CASE ApplyStatus(r)
    <2>1. Finish(r) /\ StatusEffects(r) /\ retried' = retried
      BY <1>5 DEF ApplyStatus
    <2>2. invoice' \in [Invoice -> Row]
      <3>1. PICK s \in Status : invoice' = [invoice EXCEPT ![arg[r].inv].status = s]
        BY <1>2, <1>5 DEF ApplyStatus, Its, Row
      <3> QED
        BY <1>2, <3>1, StatusTypes
    <2> QED
      BY <1>1, <1>4, <2>1, <2>2, FinishTypes, EffectTypes DEF Typed, RequestsTyped
  <1>6. CASE ApplyStatusRetried(r)
    <2>1. Finish(r) /\ StatusEffects(r) /\ retried' = retried + 1 /\ invoice' = invoice
      BY <1>6 DEF ApplyStatusRetried
    <2> QED
      BY <1>1, <1>4, <2>1, FinishTypes, EffectTypes DEF Typed, RequestsTyped
  <1>7. ASSUME NEW total \in Amount, SaveEdit(r, total) PROVE Typed'
    <2>0. UNCHANGED <<queue, balance, retried, passed>>
      BY <1>7 DEF SaveEdit
    <2>1. CASE arg[r].stale
      <3>1. Finish(r) /\ invoice' = invoice
        BY <1>7, <2>1 DEF SaveEdit
      <3> QED
        BY <1>3, <1>4, <2>0, <3>1, FinishTypes
    <2>2. CASE ~arg[r].stale
      <3>1. /\ invoice' = [invoice EXCEPT ![arg[r].inv].total = total, ![arg[r].inv].due = total]
            /\ Goto(r, "idle")
            /\ arg' = [q \in Req |-> IF q = r THEN NoArg
                         ELSE [arg[q] EXCEPT !.stale =
                                 arg[q].stale \/ (q # r /\ pc[q] = "edit"
                                                  /\ arg[q].inv = arg[r].inv)]]
        BY <1>7, <2>2 DEF SaveEdit
      <3>2. invoice' \in [Invoice -> Row]
        <4>1. total \in Nat
          BY LifecycleAssumption
        <4>2. [Its(r) EXCEPT !.total = total, !.due = total] \in Row
          BY <1>2, <4>1 DEF Row
        <4>3. invoice' = [invoice EXCEPT ![arg[r].inv] =
                            [Its(r) EXCEPT !.total = total, !.due = total]]
          BY <1>2, <3>1 DEF Its, Row
        <4> HIDE DEF Row
        <4> QED
          BY <1>2, <1>4, <4>2, <4>3
      <3>3. RequestsTyped'
        <4>1. NoArg \in Held
          BY DEF NoArg, Held, Status
        <4>2. \A q \in Req : arg[q] \in Held
          BY DEF Typed
        <4>3. \A q \in Req \ {r}, b \in BOOLEAN :
                /\ [arg[q] EXCEPT !.stale = b] \in Held
                /\ [arg[q] EXCEPT !.stale = b].inv = arg[q].inv
          BY <4>2 DEF Held
        <4>4. \A q \in Req : arg'[q] \in Held /\ (q # r => arg'[q].inv = arg[q].inv)
          <5> SUFFICES ASSUME NEW q \in Req
                       PROVE  arg'[q] \in Held /\ (q # r => arg'[q].inv = arg[q].inv)
            OBVIOUS
          <5>1. CASE q = r
            BY <3>1, <4>1, <5>1
          <5>2. CASE q # r
            <6>1. arg[q].stale \in BOOLEAN
              BY <4>2 DEF Held
            <6>2. PICK b \in BOOLEAN : arg'[q] = [arg[q] EXCEPT !.stale = b]
              BY <3>1, <5>2, <6>1
            <6> QED
              BY <4>3, <5>2, <6>2
          <5> QED
            BY <5>1, <5>2
        <4>5. arg' \in [Req -> Held]
          BY <3>1, <4>4
        <4> QED
          BY <3>1, <4>4, <4>5 DEF Typed, RequestsTyped, Goto
      <3> QED
        BY <1>3, <2>0, <3>2, <3>3
    <2> QED
      BY <2>1, <2>2
  <1>8. CASE MarkSent(r)
    <2>1. invoice' = [invoice EXCEPT ![arg[r].inv].status = "sent"] /\ "sent" \in Status
          /\ UNCHANGED <<queue, balance, retried, passed>>
      BY <1>8 DEF MarkSent, Status
    <2>2. RequestsTyped'
      <3>1. CASE Finish(r)
        BY <3>1, FinishTypes
      <3>2. CASE Goto(r, "post") /\ UNCHANGED arg
        BY <1>2, <3>2 DEF Goto, Typed, RequestsTyped, Working
      <3> QED
        BY <1>8, <3>1, <3>2 DEF MarkSent
    <2> QED
      BY <1>2, <1>3, <2>1, <2>2, StatusTypes
  <1>9. CASE PostDelta(r)
    <2>1. Finish(r) /\ balance' = balance + arg[r].delta
          /\ UNCHANGED <<invoice, queue, retried, passed>>
      BY <1>9 DEF PostDelta
    <2> QED
      BY <1>1, <1>2, <1>4, <2>1, FinishTypes DEF Typed, RequestsTyped
  <1>10. CASE ApproveInvoice(r)
    <2>1. UNCHANGED <<queue, balance, retried, passed>>
      BY <1>10 DEF ApproveInvoice
    <2>2. CASE Its(r).status # "pending_approval"
      BY <1>3, <1>4, <1>10, <2>1, <2>2, FinishTypes DEF ApproveInvoice, Its
    <2>3. CASE Its(r).status = "pending_approval"
      <3>1. /\ invoice' = [invoice EXCEPT ![arg[r].inv].status = "approved"]
            /\ arg' = [arg EXCEPT ![r].delta = Its(r).due] /\ Goto(r, "post")
            /\ "approved" \in Status
        BY <1>10, <2>3 DEF ApproveInvoice, Its, Status
      <3>2. [arg[r] EXCEPT !.delta = Its(r).due] \in Held
            /\ [arg[r] EXCEPT !.delta = Its(r).due].inv = arg[r].inv
        BY <1>2 DEF Held, Row
      <3>3. arg' = [arg EXCEPT ![r] = [arg[r] EXCEPT !.delta = Its(r).due]]
        BY <3>1
      <3>4. RequestsTyped'
        BY <1>2, <3>1, <3>2, <3>3, DecideTypes DEF Working
      <3> QED
        BY <1>2, <1>3, <2>1, <3>1, <3>4, StatusTypes
    <2> QED
      BY <2>2, <2>3
  <1>11. CASE RejectInvoice(r)
    <2>1. Finish(r) /\ UNCHANGED <<queue, balance, retried, passed>>
      BY <1>11 DEF RejectInvoice
    <2>2. PICK s \in Status : invoice' = [invoice EXCEPT ![arg[r].inv].status = s]
      BY <1>2, <1>11 DEF RejectInvoice, Its, Row, Status
    <2> QED
      BY <1>2, <1>3, <2>1, <2>2, FinishTypes, StatusTypes
  <1> QED
    BY <1>5, <1>6, <1>7, <1>8, <1>9, <1>10, <1>11 DEF Step

LEMMA TypeStep == Typed /\ [Next]_vars => Typed'
  <1>1. ASSUME Typed, NEW r \in Req, CutOff(r) PROVE Typed'
    BY <1>1 DEF CutOff, Typed
  <1>2. Typed /\ UNCHANGED vars => Typed'
    BY DEF vars, Typed
  <1> QED
    BY <1>1, <1>2, ReceiveTypes, StepTypes DEF Next
-----------------------------------------------------------------------------
(* What a step may do while requests are orderly *)

\* The other requests stay where they are, and hold what they held.
Others(r) == \A q \in Req \ {r} :
  /\ pc'[q] = pc[q] /\ arg'[q].inv = arg[q].inv
  /\ arg'[q].from = arg[q].from /\ arg'[q].to = arg[q].to /\ arg'[q].hold = arg[q].hold
Stands == UNCHANGED <<invoice, queue, history>>
\* At most one invoice changes, with what is said of it.
Besides(i) ==
  /\ \A j \in Invoice \ {i} :
       /\ invoice'[j] = invoice[j] /\ queue'[j] = queue[j] /\ passed'[j] = passed[j]
       /\ j \in parked' <=> j \in parked
  /\ waved \subseteq waved'
  /\ mailed \subseteq mailed' /\ mailed' \subseteq mailed \cup {i}

\* A request reads an invoice that it will write later ...
Looks(r) ==
  /\ Stands /\ Others(r) /\ dead' = dead /\ pc[r] = "idle"
  /\ pc'[r] \in Unguarded /\ (Orderly' => Alone(r)')

\* ... or ends, or is cut off.
Leaves(r) ==
  /\ Stands /\ Others(r) /\ dead' = dead /\ pc[r] # "idle" /\ pc'[r] = "idle"
  /\ pc[r] \in {"approve", "reject"} => Its(r).status # "pending_approval"
Dies(r) == Stands /\ UNCHANGED <<pc, arg>> /\ dead' = dead \cup {r} /\ pc[r] # "idle"

\* A request that writes as it arrives meets no handler that writes without asking.
Arriving(r) ==
  /\ pc[r] = "idle"
  /\ Orderly' => \A q \in Req \ dead : pc[q] \notin Unguarded

Creates(r, i) ==
  /\ Arriving(r) /\ Besides(i) /\ UNCHANGED <<pc, arg, dead, history>>
  /\ invoice[i].status = "none"
  /\ \/ /\ invoice'[i].status \in {"draft", "sent"} /\ ~RuleHolds(invoice'[i].total)
        /\ queue'[i] = queue[i]
     \/ /\ invoice'[i].status = "pending_approval"
        /\ queue'[i] = Append(queue[i], "pending")

Claims(r, i, n) ==
  /\ Arriving(r) /\ Besides(i) /\ Others(r) /\ UNCHANGED <<invoice, dead, waved, parked, mailed>>
  /\ pc'[r] \in {"approve", "reject"} /\ arg'[r].inv = i
  /\ invoice[i].status # "none"
  /\ n \in DOMAIN queue[i] /\ queue[i][n] = "pending"
  /\ DOMAIN queue'[i] = DOMAIN queue[i] /\ queue'[i][n] # "pending"
  /\ \A m \in DOMAIN queue[i] \ {n} : queue'[i][m] = queue[i][m]
  /\ passed[i] \subseteq passed'[i]
  /\ pc'[r] = "approve" => invoice[i].total \in passed'[i]

\* One invoice gets a new status, and keeps its total and its entries.
Turns(i, s) ==
  /\ Besides(i) /\ UNCHANGED <<queue, passed, waved, parked, dead>>
  /\ invoice'[i].status = s /\ invoice'[i].total = invoice[i].total

Pays(r, i) ==
  /\ Arriving(r) /\ Receivable(invoice[i].status) /\ UNCHANGED <<pc, arg, mailed>>
  /\ Turns(i, "paid") \/ Turns(i, "partially_paid")

Settles(r) ==
  /\ Others(r) /\ pc'[r] \in {"post", "idle"} /\ mailed' = mailed
  /\ Its(r).status = "pending_approval"
  /\ \/ pc[r] = "approve" /\ Turns(arg[r].inv, "approved")
     \/ pc[r] = "reject" /\ Turns(arg[r].inv, "draft")

Mails(r) ==
  /\ Others(r) /\ pc'[r] \in {"post", "idle"} /\ pc[r] = "mail"
  /\ Turns(arg[r].inv, "sent") /\ mailed' = mailed \cup {arg[r].inv}

Reprices(r) ==
  /\ Others(r) /\ pc'[r] = "idle" /\ pc[r] = "edit"
  /\ Besides(arg[r].inv) /\ UNCHANGED <<queue, history, dead>>
  /\ invoice'[arg[r].inv].status = Its(r).status

Applies(r) ==
  LET i == arg[r].inv
      closed == IF arg[r].from = "pending_approval"
                  THEN CloseEntries(queue[i], IF arg[r].to = "approved" THEN "approved"
                                                                        ELSE "rejected")
                  ELSE queue[i]
  IN /\ Others(r) /\ pc'[r] = "idle" /\ pc[r] = "apply"
     /\ Besides(i) /\ UNCHANGED <<dead, mailed>>
     /\ invoice'[i].status = arg[r].to /\ invoice'[i].total = invoice[i].total
     /\ queue'[i] = IF arg[r].hold THEN Append(closed, "pending") ELSE closed
     /\ passed[i] \subseteq passed'[i]
     /\ arg[r].from = "pending_approval" /\ arg[r].to = "approved" =>
          invoice[i].total \in passed'[i] \/ i \in waved'
     /\ arg[r].to = "pending_approval" /\ ~arg[r].hold => i \in parked'

\* A transaction that is retried ends the orderly part of a behaviour.
Retries == invoice' = invoice /\ ~Orderly'

Moves(r) ==
  /\ r \notin dead
  /\ \/ Looks(r) \/ Leaves(r) \/ Dies(r) \/ Settles(r) \/ Mails(r) \/ Reprices(r)
     \/ Applies(r) \/ Retries
     \/ \E i \in Invoice :
          Creates(r, i) \/ Pays(r, i) \/ \E n \in DOMAIN queue[i] : Claims(r, i, n)

LEMMA FinishLeaves ==
  ASSUME Typed, NEW r \in Req, Finish(r)
  PROVE  Others(r) /\ pc'[r] = "idle"
  BY DEF Typed, Finish, Goto, Others

LEMMA NotOverlapped ==
  ASSUME Typed, NEW r \in Req, Receive(r), Orderly', pc'[r] \in Unguarded
  PROVE  \A q \in Req \ {r} : q \notin dead => pc[q] = "idle"
  BY DEF Receive, Orderly, Overlaps

LEMMA Arrival ==
  ASSUME Typed, NEW r \in Req, Receive(r), At(r, "idle")
  PROVE  Arriving(r) /\ r \notin dead
  BY DEF Receive, Orderly, Overlaps, At, Arriving, Unguarded

LEMMA ReadMoves ==
  ASSUME Typed, NEW r \in Req, Receive(r), NEW i \in Invoice,
         \/ \E to \in AskedStatus : ReadForStatus(r, i, to)
         \/ ReadForDelete(r, i) \/ ReadForEdit(r, i) \/ ReadForEmail(r, i)
  PROVE  Looks(r) /\ r \notin dead
  <1>0. At(r, "idle")
    BY DEF ReadForStatus, ReadForDelete, ReadForEdit, ReadForEmail, Arrives
  <1> SUFFICES Looks(r)
    BY <1>0 DEF At
  <1>1. arg \in [Req -> Held] /\ pc \in [Req -> {"idle"} \cup Working] /\ invoice[i] \in Row
    BY DEF Typed
  \* What all of them do.
  <1>2. ASSUME NEW to, NEW delta, NEW hold, NEW where \in Unguarded,
               Stands, dead' = dead, Goto(r, where),
               arg' = [arg EXCEPT ![r] = Reading(i, to, delta, hold)],
               where = "apply" => MayApply(r)',
               where = "edit" => invoice[i].status = "draft",
               where = "mail" => invoice[i].status \in {"draft", "approved"}
        PROVE  Looks(r)
    <2>1. /\ pc'[r] = where /\ arg'[r] = Reading(i, to, delta, hold)
          /\ \A q \in Req \ {r} : pc'[q] = pc[q] /\ arg'[q] = arg[q]
      BY <1>1, <1>2 DEF Goto
    <2>2. arg'[r].inv = i /\ arg'[r].from = invoice[i].status
      BY <2>1 DEF Reading
    <2>3. ASSUME Orderly' PROVE Alone(r)'
      <3>1. \A q \in Req \ {r} : q \notin dead' => pc'[q] = "idle"
        BY <1>2, <2>1, <2>3, NotOverlapped
      <3>2. Its(r)'.status = arg'[r].from
        BY <1>2, <2>2 DEF Its, Stands
      <3> QED
        BY <1>2, <2>1, <2>2, <3>1, <3>2 DEF Alone
    <2> QED
      BY <1>0, <1>2, <2>1, <2>3 DEF Looks, Others, At
  <1>3. ASSUME NEW to, NEW delta, NEW hold,
               arg' = [arg EXCEPT ![r] = Reading(i, to, delta, hold)], invoice' = invoice
        PROVE  /\ arg'[r].from = invoice[i].status /\ arg'[r].to = to /\ arg'[r].hold = hold
               /\ Its(r)'.total = invoice[i].total
    <2>1. arg'[r] = Reading(i, to, delta, hold)
      BY <1>1, <1>3
    <2> QED
      BY <1>3, <2>1 DEF Reading, Its
  <1>4. ASSUME NEW to \in AskedStatus, ReadForStatus(r, i, to) PROVE Looks(r)
    <2>1. /\ Stands /\ dead' = dead /\ Goto(r, "apply") /\ "apply" \in Unguarded
          /\ invoice[i].status # "none" /\ to \in Allowed[invoice[i].status]
      BY <1>4 DEF ReadForStatus, Stands, Unguarded, Arrives
    <2>2. CASE HeldByRules(i, to)
      <3>1. arg' = [arg EXCEPT ![r] = Reading(i, "pending_approval", 0, TRUE)]
        BY <1>4, <2>2 DEF ReadForStatus, Decide, Reading
      <3>2. invoice[i].status = "draft" /\ "pending_approval" \in Allowed["draft"]
        BY <2>2 DEF HeldByRules, Allowed, Status
      <3>3. /\ arg'[r].from = "draft" /\ arg'[r].to = "pending_approval" /\ arg'[r].hold
        BY <1>3, <2>1, <3>1, <3>2 DEF Stands
      <3>4. MayApply(r)'
        BY <3>2, <3>3 DEF MayApply
      <3> QED
        BY <1>2, <2>1, <3>1, <3>4
    <2>3. CASE ~HeldByRules(i, to)
      <3> DEFINE delta == StatusDelta(invoice[i].status, to, invoice[i].due)
      <3>1. arg' = [arg EXCEPT ![r] = Reading(i, to, delta, FALSE)]
        BY <1>4, <2>3 DEF ReadForStatus, Decide, Reading
      <3> HIDE DEF delta
      <3>2. invoice[i].status = "draft" /\ to \in {"sent", "approved"} =>
              ~RuleHolds(invoice[i].total)
        BY <2>3 DEF HeldByRules
      <3>3. MayApply(r)'
        BY <1>3, <2>1, <3>1, <3>2 DEF MayApply, Stands, RuleHolds
      <3> QED
        BY <1>2, <2>1, <3>1, <3>3
    <2> QED
      BY <2>2, <2>3
  <1>5. CASE ReadForDelete(r, i)
    <2> DEFINE delta == StatusDelta(invoice[i].status, "cancelled", invoice[i].due)
    <2>1. /\ Stands /\ dead' = dead /\ Goto(r, "apply") /\ "apply" \in Unguarded
          /\ invoice[i].status \notin {"none", "paid"}
          /\ arg' = [arg EXCEPT ![r] = Reading(i, "cancelled", delta, FALSE)]
      BY <1>5 DEF ReadForDelete, Stands, Unguarded, Arrives, Decide, Reading
    <2> HIDE DEF delta
    <2>2. /\ arg'[r].from \notin {"none", "paid"} /\ arg'[r].to = "cancelled" /\ ~arg'[r].hold
      BY <1>3, <2>1 DEF Stands
    <2>3. MayApply(r)'
      BY <2>2 DEF MayApply
    <2> QED
      BY <1>2, <2>1, <2>3
  <1>6. CASE ReadForEdit(r, i)
    <2>1. /\ Stands /\ dead' = dead /\ Goto(r, "edit") /\ "edit" \in Unguarded
          /\ invoice[i].status = "draft"
          /\ arg' = [arg EXCEPT ![r] = Reading(i, "draft", 0, FALSE)]
      BY <1>6 DEF ReadForEdit, Stands, Unguarded, Decide, Reading
    <2> QED
      BY <1>2, <2>1
  <1>7. CASE ReadForEmail(r, i)
    <2> DEFINE delta == StatusDelta(invoice[i].status, "sent", invoice[i].due)
    <2>1. /\ Stands /\ dead' = dead /\ Goto(r, "mail") /\ "mail" \in Unguarded
          /\ invoice[i].status \in {"draft", "approved"}
          /\ arg' = [arg EXCEPT ![r] = Reading(i, "sent", delta, FALSE)]
      BY <1>7 DEF ReadForEmail, Stands, Unguarded, Decide, Reading
    <2> HIDE DEF delta
    <2> QED
      BY <1>2, <2>1
  <1> QED
    BY <1>4, <1>5, <1>6, <1>7

LEMMA ReceiveMoves ==
  ASSUME Typed, NEW r \in Req, Receive(r)
  PROVE  Moves(r)
  <1>1. ASSUME NEW i \in Invoice, NEW asked \in {"draft", "sent"}, NEW total \in Amount,
               CreateInvoice(r, i, asked, total)
        PROVE  Creates(r, i) /\ r \notin dead
    <2>0. Arriving(r) /\ r \notin dead
      BY <1>1, Arrival DEF CreateInvoice
    <2>1. /\ invoice' = [invoice EXCEPT ![i] = invoice'[i]]
          /\ invoice'[i].total = total
          /\ invoice'[i].status = IF RuleHolds(total) THEN "pending_approval" ELSE asked
          /\ queue' = [queue EXCEPT ![i] =
                         IF RuleHolds(total) THEN Append(queue[i], "pending") ELSE queue[i]]
          /\ invoice[i].status = "none" /\ UNCHANGED <<pc, arg, dead, history>>
      BY <1>1 DEF CreateInvoice, Typed
    <2>2. Besides(i)
      BY <2>1 DEF Besides, Typed
    <2> QED
      BY <2>0, <2>1, <2>2 DEF Creates, Typed
  <1>2. ASSUME NEW i \in Invoice, NEW n \in DOMAIN queue[i], NEW d \in {"approved", "rejected"},
               Claim(r, i, n, d)
        PROVE  Claims(r, i, n) /\ r \notin dead
    <2>0. Arriving(r) /\ r \notin dead
      BY <1>2, Arrival DEF Claim, Arrives
    <2>1. /\ queue' = [queue EXCEPT ![i] = [queue[i] EXCEPT ![n] = d]]
          /\ passed' = [passed EXCEPT ![i] =
               IF d = "approved" THEN passed[i] \cup {invoice[i].total} ELSE passed[i]]
          /\ queue[i][n] = "pending" /\ invoice[i].status # "none"
          /\ UNCHANGED <<invoice, dead, waved, parked, mailed>>
      BY <1>2 DEF Claim, Arrives, At
    <2>2. Others(r) /\ pc'[r] = (IF d = "approved" THEN "approve" ELSE "reject")
          /\ arg'[r].inv = i
      BY <1>2 DEF Claim, Decide, Goto, Others, Typed
    <2>3. Besides(i) /\ queue'[i] = [queue[i] EXCEPT ![n] = d]
      BY <2>1 DEF Besides, Typed
    <2>4. /\ DOMAIN queue'[i] = DOMAIN queue[i] /\ queue'[i][n] = d
          /\ \A m \in DOMAIN queue[i] \ {n} : queue'[i][m] = queue[i][m]
      BY <2>3
    <2>5. passed[i] \subseteq passed'[i] /\ (d = "approved" => invoice[i].total \in passed'[i])
      BY <2>1 DEF Typed
    <2> QED
      BY <2>0, <2>1, <2>2, <2>3, <2>4, <2>5 DEF Claims
  <1>3. ASSUME NEW i \in Invoice, NEW a \in Amount, Pay(r, i, a)
        PROVE  Pays(r, i) /\ r \notin dead
    <2>0. Arriving(r) /\ r \notin dead
      BY <1>3, Arrival DEF Pay, Arrives
    <2>1. invoice[i] \in Row
      BY DEF Typed
    <2>2. /\ Receivable(invoice[i].status)
          /\ UNCHANGED <<queue, pc, arg, dead, history>>
          /\ invoice' = [invoice EXCEPT ![i] = invoice'[i]]
          /\ invoice'[i].status \in {"paid", "partially_paid"}
          /\ invoice'[i].total = invoice[i].total
      BY <1>3, <2>1 DEF Pay, Row, Typed
    <2>3. Besides(i)
      BY <2>2 DEF Besides, Typed
    <2> QED
      BY <2>0, <2>2, <2>3 DEF Pays, Turns
  <1>4. ASSUME NEW i \in Invoice,
               \/ \E to \in AskedStatus : ReadForStatus(r, i, to)
               \/ ReadForDelete(r, i) \/ ReadForEdit(r, i) \/ ReadForEmail(r, i)
        PROVE  Looks(r) /\ r \notin dead
    BY <1>4, ReadMoves
  <1> QED
    BY <1>1, <1>2, <1>3, <1>4 DEF Receive, Moves

LEMMA StepMoves ==
  ASSUME Typed, WritersFit, Orderly, NEW r \in Req, Step(r)
  PROVE  Moves(r)
  <1>1. pc[r] \in Working /\ r \notin dead
    BY DEF Step, ApplyStatus, ApplyStatusRetried, SaveEdit, MarkSent, PostDelta,
           ApproveInvoice, RejectInvoice, At, Working
  <1>2. /\ arg[r].inv \in Invoice /\ Its(r) \in Row /\ arg[r] \in Held
        /\ queue[arg[r].inv] \in Seq(Decision) /\ passed[arg[r].inv] \subseteq Nat
    BY <1>1, WorkingFields DEF Working
  <1>3. invoice \in [Invoice -> Row] /\ queue \in [Invoice -> Seq(Decision)]
        /\ passed \in [Invoice -> SUBSET Nat] /\ pc \in [Req -> {"idle"} \cup Working]
        /\ arg \in [Req -> Held]
    BY DEF Typed
  <1>4. pc[r] \in Unguarded => Alone(r)
    BY <1>1 DEF WritersFit
  \* A status written to the invoice of the request.
  <1>5. ASSUME NEW s, invoice' = [invoice EXCEPT ![arg[r].inv].status = s]
        PROVE  /\ invoice'[arg[r].inv].status = s
               /\ invoice'[arg[r].inv].total = invoice[arg[r].inv].total
               /\ \A j \in Invoice \ {arg[r].inv} : invoice'[j] = invoice[j]
    BY <1>2, <1>3, <1>5 DEF Row, Its
  <1>6. ASSUME ApplyStatus(r) PROVE Applies(r)
    <2>1. Finish(r) /\ StatusEffects(r) /\ pc[r] = "apply" /\ UNCHANGED <<dead, mailed>>
      BY <1>6 DEF ApplyStatus, At
    <2>2. Its(r).status = arg[r].from
      BY <1>4, <2>1 DEF Alone, Unguarded
    <2>3. invoice' = [invoice EXCEPT ![arg[r].inv].status = arg[r].to]
      BY <1>2, <1>3, <1>6, <2>2 DEF ApplyStatus, Its, Row
    <2>4. /\ \A j \in Invoice \ {arg[r].inv} : queue'[j] = queue[j] /\ passed'[j] = passed[j]
          /\ passed[arg[r].inv] \subseteq passed'[arg[r].inv]
          /\ arg[r].from = "pending_approval" /\ arg[r].to = "approved" =>
               invoice[arg[r].inv].total \in passed'[arg[r].inv] \/ arg[r].inv \in waved'
      BY <1>2, <1>3, <2>1 DEF StatusEffects
    <2>7. /\ waved \subseteq waved'
          /\ \A j \in Invoice \ {arg[r].inv} : j \in parked' <=> j \in parked
          /\ arg[r].to = "pending_approval" /\ ~arg[r].hold => arg[r].inv \in parked'
      BY <2>1 DEF StatusEffects
    <2>5. queue'[arg[r].inv] =
            LET closed == IF arg[r].from = "pending_approval"
                            THEN CloseEntries(queue[arg[r].inv],
                                   IF arg[r].to = "approved" THEN "approved" ELSE "rejected")
                            ELSE queue[arg[r].inv]
            IN IF arg[r].hold THEN Append(closed, "pending") ELSE closed
      BY <1>2, <1>3, <2>1 DEF StatusEffects
    <2>6. Besides(arg[r].inv)
      BY <1>5, <2>1, <2>3, <2>4, <2>7 DEF Besides
    <2> QED
      BY <1>5, <2>1, <2>3, <2>4, <2>5, <2>6, <2>7, FinishLeaves DEF Applies
  <1>7. ASSUME ApplyStatusRetried(r) PROVE Retries
    BY <1>7 DEF ApplyStatusRetried, Retries, Orderly, Typed
  <1>8. ASSUME NEW total \in Amount, SaveEdit(r, total) PROVE Leaves(r) \/ Reprices(r)
    <2>1. pc[r] = "edit" /\ UNCHANGED <<queue, history, dead>>
      BY <1>8 DEF SaveEdit, At
    <2>2. CASE arg[r].stale
      BY <1>8, <2>1, <2>2, FinishLeaves DEF SaveEdit, Leaves, Stands
    <2>3. CASE ~arg[r].stale
      <3>1. /\ invoice' = [invoice EXCEPT ![arg[r].inv].total = total, ![arg[r].inv].due = total]
            /\ Goto(r, "idle")
            /\ \A q \in Req \ {r} : \E b : arg'[q] = [arg[q] EXCEPT !.stale = b]
        BY <1>8, <2>3 DEF SaveEdit
      <3>2. Others(r) /\ pc'[r] = "idle"
        <4>1. \A q \in Req \ {r} : pc'[q] = pc[q]
          BY <1>3, <3>1 DEF Goto
        <4>2. ASSUME NEW q \in Req \ {r}
              PROVE  /\ arg'[q].inv = arg[q].inv /\ arg'[q].from = arg[q].from
                     /\ arg'[q].to = arg[q].to /\ arg'[q].hold = arg[q].hold
          <5>1. arg[q] \in Held
            BY <1>3
          <5> QED
            BY <3>1, <5>1 DEF Held
        <4> QED
          BY <1>3, <3>1, <4>1, <4>2 DEF Others, Goto
      <3>3. /\ invoice'[arg[r].inv].status = Its(r).status
            /\ \A j \in Invoice \ {arg[r].inv} : invoice'[j] = invoice[j]
        BY <1>2, <1>3, <3>1 DEF Its, Row
      <3> QED
        BY <2>1, <3>2, <3>3 DEF Reprices, Besides
    <2> QED
      BY <2>2, <2>3
  <1>9. ASSUME MarkSent(r) PROVE Mails(r)
    <2>1. /\ pc[r] = "mail" /\ mailed' = mailed \cup {arg[r].inv}
          /\ UNCHANGED <<queue, passed, waved, parked, dead>>
          /\ invoice' = [invoice EXCEPT ![arg[r].inv].status = "sent"]
      BY <1>9 DEF MarkSent, At
    <2>2. Others(r) /\ pc'[r] \in {"post", "idle"}
      <3>1. CASE Finish(r)
        BY <3>1, FinishLeaves
      <3>2. CASE Goto(r, "post") /\ UNCHANGED arg
        BY <1>3, <3>2 DEF Goto, Others
      <3> QED
        BY <1>9, <3>1, <3>2 DEF MarkSent
    <2>3. Besides(arg[r].inv)
      BY <1>5, <2>1 DEF Besides
    <2> QED
      BY <1>5, <2>1, <2>2, <2>3 DEF Mails, Turns
  <1>10. ASSUME PostDelta(r) PROVE Leaves(r)
    BY <1>10, FinishLeaves DEF PostDelta, Leaves, Stands, At
  <1>11. ASSUME ApproveInvoice(r) PROVE Leaves(r) \/ Settles(r)
    <2>1. pc[r] = "approve" /\ UNCHANGED <<queue, history, dead>>
      BY <1>11 DEF ApproveInvoice, At
    <2>2. CASE Its(r).status # "pending_approval"
      BY <1>11, <2>1, <2>2, FinishLeaves DEF ApproveInvoice, Leaves, Stands, Its
    <2>3. CASE Its(r).status = "pending_approval"
      <3>1. /\ invoice' = [invoice EXCEPT ![arg[r].inv].status = "approved"]
            /\ arg' = [arg EXCEPT ![r].delta = Its(r).due] /\ Goto(r, "post")
        BY <1>11, <2>3 DEF ApproveInvoice, Its
      <3>2. Others(r) /\ pc'[r] = "post"
        BY <1>3, <3>1 DEF Goto, Others
      <3>3. Besides(arg[r].inv)
        BY <1>5, <2>1, <3>1 DEF Besides
      <3> QED
        BY <1>5, <2>1, <2>3, <3>1, <3>2, <3>3 DEF Settles, Turns
    <2> QED
      BY <2>2, <2>3
  <1>12. ASSUME RejectInvoice(r) PROVE Leaves(r) \/ Settles(r)
    <2>1. /\ pc[r] = "reject" /\ Others(r) /\ pc'[r] = "idle"
          /\ UNCHANGED <<queue, history, dead>>
      BY <1>12, FinishLeaves DEF RejectInvoice, At
    <2>2. CASE Its(r).status # "pending_approval"
      <3>1. invoice' = invoice
        BY <1>2, <1>3, <1>12, <2>2 DEF RejectInvoice, Its, Row
      <3> QED
        BY <2>1, <2>2, <3>1 DEF Leaves, Stands
    <2>3. CASE Its(r).status = "pending_approval"
      <3>1. invoice' = [invoice EXCEPT ![arg[r].inv].status = "draft"]
        BY <1>12, <2>3 DEF RejectInvoice, Its
      <3>2. Besides(arg[r].inv)
        BY <1>5, <2>1, <3>1 DEF Besides
      <3> QED
        BY <1>5, <2>1, <2>3, <3>1, <3>2 DEF Settles, Turns
    <2> QED
      BY <2>2, <2>3
  <1> QED
    <2>1. \/ Applies(r) \/ Retries \/ Leaves(r) \/ Reprices(r) \/ Mails(r) \/ Settles(r)
      BY <1>6, <1>7, <1>8, <1>9, <1>10, <1>11, <1>12 DEF Step
    <2> QED
      BY <1>1, <2>1 DEF Moves

LEMMA CutOffMoves ==
  ASSUME NEW r \in Req, CutOff(r)
  PROVE  Moves(r)
  BY DEF CutOff, Moves, Dies, Stands, Working

\* mixed and retried never fall, so a step that ends orderly started so.
LEMMA StaysOrderly ==
  ASSUME Typed, [Next]_vars, Orderly'
  PROVE  Orderly
  <1>1. ASSUME NEW r \in Req, Receive(r) PROVE mixed' \in {mixed, TRUE} /\ retried' = retried
    <2>1. /\ \A i \in Invoice : \A asked, total :
               CreateInvoice(r, i, asked, total) => retried' = retried
          /\ \A i \in Invoice : \A to : ReadForStatus(r, i, to) => retried' = retried
          /\ \A i \in Invoice : ReadForDelete(r, i) => retried' = retried
      BY DEF CreateInvoice, ReadForStatus, ReadForDelete
    <2>2. \A i \in Invoice : ReadForEdit(r, i) \/ ReadForEmail(r, i) => retried' = retried
      BY DEF ReadForEdit, ReadForEmail
    <2>3. /\ \A i \in Invoice : \A n, d : Claim(r, i, n, d) => retried' = retried
          /\ \A i \in Invoice : \A a : Pay(r, i, a) => retried' = retried
      BY DEF Claim, Pay
    <2>4. mixed' \in {mixed, TRUE}
      BY <1>1, Zenon DEF Receive, Typed
    <2> QED
      BY <1>1, <2>1, <2>2, <2>3, <2>4 DEF Receive
  <1>2. ASSUME NEW r \in Req, Step(r) PROVE mixed' = mixed /\ retried' \in {retried, retried + 1}
    <2>1. /\ ApplyStatus(r) => retried' = retried
          /\ ApplyStatusRetried(r) => retried' = retried + 1
          /\ \A total : SaveEdit(r, total) => retried' = retried
          /\ MarkSent(r) => retried' = retried
      BY DEF ApplyStatus, ApplyStatusRetried, SaveEdit, MarkSent
    <2>2. PostDelta(r) \/ ApproveInvoice(r) \/ RejectInvoice(r) => retried' = retried
      BY DEF PostDelta, ApproveInvoice, RejectInvoice
    <2> QED
      BY <1>2, <2>1, <2>2 DEF Step
  <1>3. ASSUME NEW r \in Req, CutOff(r) PROVE mixed' = mixed /\ retried' = retried
    BY <1>3 DEF CutOff
  <1>4. mixed' \in {mixed, TRUE} /\ retried' \in {retried, retried + 1}
    BY <1>1, <1>2, <1>3 DEF Next, vars
  <1>5. mixed' => ~Orderly'
    BY DEF Orderly
  <1>6. ~mixed
    BY <1>4, <1>5 DEF Typed
  <1>7. retried' = 0 /\ retried \in Nat
    BY DEF Orderly, Typed
  <1>8. retried = 0
    BY <1>4, <1>7
  <1> QED
    BY <1>6, <1>8 DEF Orderly

LEMMA NextMoves ==
  ASSUME Typed, WritersFit, Orderly, Next
  PROVE  \E r \in Req : Moves(r)
  BY ReceiveMoves, StepMoves, CutOffMoves DEF Next

-----------------------------------------------------------------------------
(* The requests go on fitting *)

\* Beside a request that moves, no other is about to write without asking.
LEMMA Apart ==
  ASSUME WritersFit, Orderly, Orderly', NEW r \in Req, Moves(r),
         NEW q \in Req \ {r}, q \notin dead
  PROVE  pc[q] \notin Unguarded
  <1> SUFFICES ASSUME pc[q] \in Unguarded PROVE FALSE
    OBVIOUS
  <1>1. r \notin dead
    BY DEF Moves
  <1>2. Alone(q)
    BY DEF WritersFit
  <1>3. pc[r] = "idle"
    BY <1>1, <1>2 DEF Alone
  <1>4. pc[q] # "idle"
    BY DEF Unguarded
  <1>5. ~Arriving(r)
    BY DEF Arriving
  <1>9. \A i \in Invoice : /\ ~Creates(r, i) /\ ~Pays(r, i)
                           /\ \A n \in DOMAIN queue[i] : ~Claims(r, i, n)
    BY <1>5 DEF Creates, Claims, Pays
  <1>6. ~Leaves(r) /\ ~Dies(r)
    BY <1>3 DEF Leaves, Dies
  <1>7. ~Settles(r) /\ ~Mails(r) /\ ~Reprices(r) /\ ~Applies(r)
    BY <1>3 DEF Settles, Mails, Reprices, Applies
  <1>8. ~Looks(r)
    <2> SUFFICES ASSUME Looks(r) PROVE FALSE
      OBVIOUS
    <2>1. Alone(r)' /\ q \notin dead' /\ pc'[q] = pc[q]
      BY DEF Looks, Others
    <2>2. \A p \in Req \ {r} : p \notin dead' => pc'[p] = "idle"
      BY <2>1 DEF Alone
    <2> QED
      BY <1>4, <2>1, <2>2
  <1> QED
    BY <1>6, <1>7, <1>8, <1>9 DEF Moves, Retries

LEMMA StaysPut ==
  ASSUME Orderly', NEW r \in Req, Moves(r), NEW q \in Req \ {r}, q \notin dead'
  PROVE  q \notin dead /\ pc'[q] = pc[q]
  BY DEF Moves, Looks, Leaves, Dies, Settles, Mails, Reprices, Applies, Retries, Turns,
         Creates, Pays, Claims, Others

\* What a reviewer relies on.
Keeps(i) ==
  /\ invoice'[i].status # "none" /\ invoice'[i].total = invoice[i].total
  /\ queue'[i] = queue[i] /\ passed[i] \subseteq passed'[i]

LEMMA TurnsKeeps ==
  ASSUME NEW j \in Invoice, NEW i \in Invoice, NEW s, Turns(j, s), s # "none",
         invoice[i].status # "none"
  PROVE  Keeps(i)
  BY DEF Turns, Besides, Keeps

LEMMA ReviewsKept ==
  ASSUME Typed, WritersFit, ReviewersFit, Orderly, Orderly', NEW r \in Req, Moves(r),
         NEW q \in Req \ {r}, q \notin dead, pc[q] \in {"approve", "reject"}
  PROVE  pc'[q] = pc[q] /\ Reviews(q)'
  <1> DEFINE i == arg[q].inv
  <1>1. Reviews(q)
    BY DEF ReviewersFit
  <1>2. i \in Invoice /\ invoice[i].status # "none" /\ ~Pending(i)
        /\ (pc[q] = "approve" => invoice[i].total \in passed[i])
    BY <1>1 DEF Typed, Reviews, Its
  \* r is not alone.
  <1>3. r \notin dead /\ ~Alone(r) /\ pc[q] # "idle"
    BY DEF Moves, Alone
  <1>4. pc[r] \notin Unguarded
    BY <1>3 DEF WritersFit
  <1>5. ~Mails(r) /\ ~Reprices(r) /\ ~Applies(r) /\ ~Retries
    BY <1>4 DEF Mails, Reprices, Applies, Retries, Unguarded
  <1>6. pc'[q] = pc[q] /\ arg'[q].inv = i /\ Keeps(i)
    <2>1. CASE Looks(r) \/ Leaves(r) \/ Dies(r)
      BY <1>2, <2>1 DEF Looks, Leaves, Dies, Stands, Others, Keeps
    <2>2. CASE Settles(r)
      <3>1. arg[r].inv \in Invoice
        BY <2>2 DEF Settles, Typed
      <3>2. Keeps(i)
        BY <1>2, <2>2, <3>1, TurnsKeeps DEF Settles
      <3> QED
        BY <2>2, <3>2 DEF Settles, Others
    <2>3. ASSUME NEW j \in Invoice, Creates(r, j)
          PROVE  pc'[q] = pc[q] /\ arg'[q].inv = i /\ Keeps(i)
      BY <1>2, <2>3 DEF Creates, Besides, Keeps
    <2>4. ASSUME NEW j \in Invoice, Pays(r, j) PROVE pc'[q] = pc[q] /\ arg'[q].inv = i /\ Keeps(i)
      <3>1. Keeps(i)
        BY <1>2, <2>4, TurnsKeeps DEF Pays
      <3> QED
        BY <2>4, <3>1 DEF Pays
    <2>5. ASSUME NEW j \in Invoice, NEW n \in DOMAIN queue[j], Claims(r, j, n)
          PROVE  pc'[q] = pc[q] /\ arg'[q].inv = i /\ Keeps(i)
      <3>1. Pending(j)
        BY <2>5 DEF Claims, Pending
      <3>2. i # j
        BY <1>2, <3>1
      <3> QED
        BY <1>2, <2>5, <3>2 DEF Claims, Besides, Keeps, Others
    <2> QED
      BY <1>5, <2>1, <2>2, <2>3, <2>4, <2>5 DEF Moves
  <1> HIDE DEF i
  <1>7. ~Pending(arg[q].inv)'
    BY <1>2, <1>6 DEF Keeps, Pending
  <1>8. Its(q)' = invoice'[i]
    BY <1>6 DEF Its
  <1> QED
    BY <1>2, <1>6, <1>7, <1>8 DEF Reviews, Keeps

LEMMA WritersStep ==
  ASSUME Typed, WritersFit, Orderly, Orderly', NEW r \in Req, Moves(r)
  PROVE  WritersFit'
  <1> SUFFICES ASSUME NEW q \in Req, q \notin dead', pc'[q] \in Unguarded
               PROVE  Alone(q)'
    BY DEF WritersFit
  <1>1. CASE q = r
    <2>1. pc'[r] \notin {"idle", "post", "approve", "reject"}
      BY <1>1 DEF Unguarded
    <2>2. ~Leaves(r) /\ ~Settles(r) /\ ~Mails(r) /\ ~Reprices(r) /\ ~Applies(r)
      BY <2>1 DEF Leaves, Settles, Mails, Reprices, Applies
    <2>3. \A i \in Invoice : /\ ~Creates(r, i) /\ ~Pays(r, i)
                             /\ \A n \in DOMAIN queue[i] : ~Claims(r, i, n)
      BY <2>1 DEF Creates, Pays, Claims, Arriving
    <2>4. ~Dies(r) /\ ~Retries
      BY <1>1 DEF Dies, Retries
    <2>5. Looks(r)
      BY <2>2, <2>3, <2>4 DEF Moves
    <2> QED
      BY <1>1, <2>5 DEF Looks
  <1>2. CASE q # r
    <2>1. q \notin dead /\ pc'[q] = pc[q]
      BY <1>2, StaysPut
    <2> QED
      BY <1>2, <2>1, Apart
  <1> QED
    BY <1>1, <1>2

LEMMA ReviewersStep ==
  ASSUME Typed, AllDecided, WritersFit, ReviewersFit, Orderly, Orderly', NEW r \in Req, Moves(r)
  PROVE  ReviewersFit'
  <1> SUFFICES ASSUME NEW q \in Req, q \notin dead', pc'[q] \in {"approve", "reject"}
               PROVE  Reviews(q)'
    BY DEF ReviewersFit
  <1>1. CASE q # r
    <2>1. q \notin dead /\ pc'[q] = pc[q]
      BY <1>1, StaysPut
    <2> QED
      BY <1>1, <2>1, ReviewsKept
  <1>2. CASE q = r
    <2>1. pc'[r] \notin Unguarded \cup {"idle", "post"}
      BY <1>2 DEF Unguarded
    <2>2. /\ ~Looks(r) /\ ~Leaves(r) /\ ~Settles(r) /\ ~Mails(r) /\ ~Reprices(r)
          /\ ~Applies(r)
      BY <2>1 DEF Looks, Leaves, Settles, Mails, Reprices, Applies
    <2>3. \A i \in Invoice : ~Creates(r, i) /\ ~Pays(r, i)
      BY <2>1 DEF Creates, Pays, Arriving
    <2>4. ~Dies(r) /\ ~Retries
      BY <1>2 DEF Dies, Retries
    <2>5. PICK i \in Invoice : \E n \in DOMAIN queue[i] : Claims(r, i, n)
      BY <2>2, <2>3, <2>4 DEF Moves
    <2>6. PICK n \in DOMAIN queue[i] : Claims(r, i, n)
      BY <2>5
    <2>7. /\ invoice' = invoice /\ arg'[r].inv = i /\ invoice[i].status # "none"
          /\ queue[i][n] = "pending" /\ queue'[i][n] # "pending"
          /\ DOMAIN queue'[i] = DOMAIN queue[i]
          /\ \A m \in DOMAIN queue[i] \ {n} : queue'[i][m] = queue[i][m]
          /\ pc'[r] = "approve" => invoice[i].total \in passed'[i]
      BY <2>6 DEF Claims
    <2>8. \A m \in DOMAIN queue[i] : queue[i][m] = "pending" => m = n
      BY <2>7 DEF AllDecided, Decided
    <2>9. \A m \in DOMAIN queue'[i] : queue'[i][m] # "pending"
      BY <2>7, <2>8
    <2>10. Its(r)' = invoice[i] /\ ~Pending(arg[r].inv)'
      BY <2>7, <2>9 DEF Its, Pending
    <2> QED
      BY <1>2, <2>7, <2>10 DEF Reviews
  <1> QED
    BY <1>1, <1>2
-----------------------------------------------------------------------------
(* Held invoices go on being decided *)

\* What a move by another invoice's request leaves as it was.
LEMMA Untouched ==
  ASSUME Typed, NEW j \in Invoice, Decided(j), NEW r \in Req,
         invoice'[j] = invoice[j], queue'[j] = queue[j], passed'[j] = passed[j],
         mailed \subseteq mailed', waved \subseteq waved', j \in parked' <=> j \in parked,
         Others(r) \/ UNCHANGED <<pc, arg>>,
         pc[r] \in {"approve", "reject"} /\ invoice[j].status = "pending_approval" =>
           arg[r].inv # j \/ UNCHANGED <<pc, arg>>
  PROVE  Decided(j)'
  <1>1. Pending(j)' <=> Pending(j)
    BY DEF Pending
  <1>2. invoice[j].status = "pending_approval" /\ UnderReview(j) => UnderReview(j)'
    <2> SUFFICES ASSUME invoice[j].status = "pending_approval",
                        NEW q \in Req, pc[q] \in {"approve", "reject"}, arg[q].inv = j
                 PROVE  UnderReview(j)'
      BY DEF UnderReview
    <2>1. pc'[q] = pc[q] /\ arg'[q].inv = j
      BY DEF Others
    <2> QED
      BY <2>1 DEF UnderReview
  <1> QED
    BY <1>1, <1>2 DEF Decided

\* The other invoices, when the request that moves is not a reviewer's, or reviews this one.
LEMMA BesidesDecided ==
  ASSUME Typed, NEW i \in Invoice, NEW r \in Req, Besides(i), Others(r) \/ UNCHANGED <<pc, arg>>,
         pc[r] \in {"approve", "reject"} => arg[r].inv = i,
         NEW j \in Invoice \ {i}, Decided(j)
  PROVE  Decided(j)'
  BY Untouched DEF Besides

\* An invoice with no open entry gets a new status.
LEMMA TurnsDecided ==
  ASSUME Typed, NEW i \in Invoice, NEW s \in Status \ {"pending_approval"}, ~Pending(i),
         Turns(i, s),
         /\ i \notin mailed' \cup waved' /\ RuleHolds(invoice[i].total)
         /\ Receivable(s) \/ s = "paid"
         => invoice[i].total \in passed[i]
  PROVE  Decided(i)'
  <1>1. /\ invoice'[i].status = s /\ invoice'[i].total = invoice[i].total
        /\ queue'[i] = queue[i] /\ passed'[i] = passed[i]
    BY DEF Turns
  <1>2. \A n \in DOMAIN queue'[i] : queue'[i][n] # "pending"
    BY <1>1 DEF Pending
  <1> QED
    BY <1>1, <1>2 DEF Decided, Pending

\* An entry appended to entries that are all decided is the only open one.
LEMMA OneOpenEntry ==
  ASSUME NEW q \in Seq(Decision), \A n \in DOMAIN q : q[n] # "pending"
  PROVE  /\ Len(q) + 1 \in DOMAIN Append(q, "pending")
         /\ Append(q, "pending")[Len(q) + 1] = "pending"
         /\ \A n \in DOMAIN Append(q, "pending") :
              Append(q, "pending")[n] = "pending" => n = Len(q) + 1
  <1>1. Len(q) \in Nat /\ DOMAIN Append(q, "pending") = 1..(Len(q) + 1)
    OBVIOUS
  <1>2. Append(q, "pending")[Len(q) + 1] = "pending"
    OBVIOUS
  <1>3. \A n \in 1..Len(q) : Append(q, "pending")[n] = q[n]
    OBVIOUS
  <1> QED
    BY <1>1, <1>2, <1>3

LEMMA CreatesDecided ==
  ASSUME Typed, NEW i \in Invoice, Decided(i), NEW r \in Req, Creates(r, i)
  PROVE  Decided(i)'
  <1>1. queue[i] \in Seq(Decision) /\ ~Pending(i)
    BY DEF Typed, Creates, Decided
  <1>2. \A n \in DOMAIN queue[i] : queue[i][n] # "pending"
    BY <1>1 DEF Pending
  <1>3. CASE /\ invoice'[i].status \in {"draft", "sent"} /\ ~RuleHolds(invoice'[i].total)
             /\ queue'[i] = queue[i]
    BY <1>2, <1>3 DEF Decided, Pending
  <1>4. CASE /\ invoice'[i].status = "pending_approval"
             /\ queue'[i] = Append(queue[i], "pending")
    <2>1. /\ Len(queue[i]) + 1 \in DOMAIN queue'[i]
          /\ queue'[i][Len(queue[i]) + 1] = "pending"
          /\ \A n \in DOMAIN queue'[i] : queue'[i][n] = "pending" => n = Len(queue[i]) + 1
      BY <1>1, <1>2, <1>4, OneOpenEntry
    <2>2. Pending(i)'
      BY <2>1 DEF Pending
    <2> QED
      BY <1>4, <2>1, <2>2 DEF Decided, Receivable
  <1> QED
    BY <1>3, <1>4 DEF Creates

LEMMA ClaimsDecided ==
  ASSUME Typed, NEW i \in Invoice, Decided(i), NEW r \in Req, NEW n \in DOMAIN queue[i],
         Claims(r, i, n)
  PROVE  Decided(i)'
  <1>1. Pending(i)
    BY DEF Claims, Pending
  <1>2. invoice[i].status = "pending_approval" /\ invoice' = invoice
    BY <1>1 DEF Decided, Claims
  <1>3. \A m \in DOMAIN queue'[i] : queue'[i][m] # "pending"
    BY DEF Claims, Decided
  <1>4. UnderReview(i)'
    BY DEF Claims, UnderReview
  <1> QED
    BY <1>2, <1>3, <1>4 DEF Decided, Pending, Receivable

LEMMA AppliesDecided ==
  ASSUME Typed, NEW r \in Req, pc[r] # "idle", Alone(r),
         NEW i \in Invoice, i = arg[r].inv, Decided(i), Applies(r)
  PROVE  Decided(i)'
  <1> DEFINE from == arg[r].from
             to == arg[r].to
  <1>1. /\ from \in Status /\ to \in Status /\ invoice[i].status = from
        /\ queue[i] \in Seq(Decision)
    BY WorkingFields DEF Alone, Its
  <1>2. /\ invoice'[i].status = to /\ invoice'[i].total = invoice[i].total
        /\ passed[i] \subseteq passed'[i] /\ mailed' = mailed /\ waved \subseteq waved'
        /\ from = "pending_approval" /\ to = "approved" =>
             invoice[i].total \in passed'[i] \/ i \in waved'
        /\ to = "pending_approval" /\ ~arg[r].hold => i \in parked'
    BY DEF Applies, Besides
  <1>3. /\ to \in Allowed[from] \/ (to = "cancelled" /\ from # "paid")
        /\ arg[r].hold => from = "draft" /\ to = "pending_approval"
        /\ from = "draft" /\ to \in {"sent", "approved"} => ~RuleHolds(invoice[i].total)
        /\ to = "pending_approval" => from = "draft"
    <2>1. to \in Allowed[from] /\ to = "pending_approval" => from = "draft"
      BY <1>1, AllowedFacts
    <2> QED
      BY <2>1 DEF Alone, MayApply, Applies, Its
  <1>4. from # "pending_approval" =>
          /\ \A n \in DOMAIN queue[i] : queue[i][n] # "pending"
          /\ queue'[i] = IF arg[r].hold THEN Append(queue[i], "pending") ELSE queue[i]
    BY <1>1 DEF Decided, Pending, Applies
  <1>5. CASE arg[r].hold
    <2>1. from = "draft" /\ to = "pending_approval"
      BY <1>3, <1>5
    <2>2. queue'[i] = Append(queue[i], "pending")
          /\ \A n \in DOMAIN queue[i] : queue[i][n] # "pending"
      BY <1>4, <1>5, <2>1
    <2>3. /\ Len(queue[i]) + 1 \in DOMAIN queue'[i]
          /\ queue'[i][Len(queue[i]) + 1] = "pending"
          /\ \A n \in DOMAIN queue'[i] : queue'[i][n] = "pending" => n = Len(queue[i]) + 1
      BY <1>1, <2>2, OneOpenEntry
    <2>4. Pending(i)'
      BY <2>3 DEF Pending
    <2> QED
      BY <1>2, <2>1, <2>3, <2>4 DEF Decided, Receivable
  <1>6. CASE ~arg[r].hold
    <2>1. to = "pending_approval" => i \in parked' /\ from = "draft"
      BY <1>2, <1>3, <1>6
    <2>2. \A n \in DOMAIN queue'[i] : queue'[i][n] # "pending"
      <3>1. CASE from = "pending_approval"
        <4> DEFINE d == IF to = "approved" THEN "approved" ELSE "rejected"
        <4>1. queue'[i] = CloseEntries(queue[i], d)
          BY <1>6, <3>1 DEF Applies
        <4>2. d \in {"approved", "rejected"}
          OBVIOUS
        <4> HIDE DEF d
        <4>3. /\ CloseEntries(queue[i], d) \in Seq(Decision)
              /\ Len(CloseEntries(queue[i], d)) = Len(queue[i])
              /\ \A n \in DOMAIN queue[i] : CloseEntries(queue[i], d)[n] # "pending"
          BY <1>1, <4>2, ClosedFields
        <4>4. DOMAIN CloseEntries(queue[i], d) = DOMAIN queue[i]
          BY <1>1, <4>3
        <4> QED
          BY <4>1, <4>3, <4>4
      <3>2. CASE from # "pending_approval"
        BY <1>4, <1>6, <3>2
      <3> QED
        BY <3>1, <3>2
    <2>3. /\ i \notin mailed \cup waved' /\ RuleHolds(invoice[i].total)
          /\ (Receivable(to) \/ to = "paid")
          => invoice[i].total \in passed'[i]
      <3>1. CASE to = "cancelled"
        BY <3>1 DEF Receivable
      <3>2. CASE to \in Allowed[from]
        <4>1. /\ to # "paid"
              /\ from = "pending_approval" => to \in {"approved", "draft", "cancelled"}
              /\ from = "draft" =>
                   to \in {"pending_approval", "approved", "sent", "void", "cancelled"}
              /\ from # "draft" /\ from # "pending_approval" /\ Receivable(to) =>
                   Receivable(from)
          BY <1>1, <3>2, AllowedFacts
        <4>2. CASE from = "pending_approval"
          BY <1>2, <4>1, <4>2 DEF Receivable
        <4>3. CASE from = "draft"
          BY <1>3, <4>1, <4>3 DEF Receivable
        <4>4. CASE from \notin {"draft", "pending_approval"}
          <5>1. /\ i \notin mailed \cup waved /\ RuleHolds(invoice[i].total) /\ Receivable(from)
                => invoice[i].total \in passed[i]
            BY <1>1 DEF Decided
          <5> QED
            BY <1>2, <4>1, <4>4, <5>1
        <4> QED
          BY <4>2, <4>3, <4>4
      <3> QED
        BY <1>3, <3>1, <3>2
    <2> QED
      BY <1>2, <2>1, <2>2, <2>3 DEF Decided, Pending
  <1> QED
    BY <1>5, <1>6

LEMMA DecidedStep ==
  ASSUME Typed, AllDecided, WritersFit, ReviewersFit, Orderly, Orderly',
         NEW r \in Req, Moves(r)
  PROVE  AllDecided'
  <1> SUFFICES ASSUME NEW j \in Invoice PROVE Decided(j)'
    BY DEF AllDecided
  <1>0. Decided(j) /\ r \notin dead
    BY DEF AllDecided, Moves
  <1>1. pc[r] # "idle" => arg[r].inv \in Invoice
    BY DEF Typed
  <1>2. pc[r] \in Unguarded => Alone(r)
    BY <1>0 DEF WritersFit
  <1>3. CASE Looks(r) \/ Leaves(r) \/ Dies(r)
    <2>1. /\ invoice'[j] = invoice[j] /\ queue'[j] = queue[j] /\ passed'[j] = passed[j]
          /\ UNCHANGED <<waved, parked, mailed>> /\ (Others(r) \/ UNCHANGED <<pc, arg>>)
      BY <1>3 DEF Looks, Leaves, Dies, Stands
    <2>2. pc[r] \in {"approve", "reject"} /\ invoice[j].status = "pending_approval" =>
            arg[r].inv # j \/ UNCHANGED <<pc, arg>>
      BY <1>3 DEF Looks, Leaves, Dies, Its
    <2> QED
      BY <1>0, <2>1, <2>2, Untouched
  <1>4. ASSUME NEW i \in Invoice, Creates(r, i) PROVE Decided(j)'
    <2>1. Besides(i) /\ UNCHANGED <<pc, arg>> /\ pc[r] = "idle"
      BY <1>4 DEF Creates, Arriving
    <2> QED
      BY <1>0, <1>4, <2>1, BesidesDecided, CreatesDecided
  <1>5. ASSUME NEW i \in Invoice, NEW n \in DOMAIN queue[i], Claims(r, i, n) PROVE Decided(j)'
    <2>1. Besides(i) /\ Others(r) /\ pc[r] = "idle"
      BY <1>5 DEF Claims, Arriving
    <2> QED
      BY <1>0, <1>5, <2>1, BesidesDecided, ClaimsDecided
  <1>6. ASSUME NEW i \in Invoice, Pays(r, i) PROVE Decided(j)'
    <2>1. Besides(i) /\ UNCHANGED <<pc, arg>> /\ pc[r] = "idle"
          /\ UNCHANGED <<waved, mailed>>
          /\ Receivable(invoice[i].status) /\ (Turns(i, "paid") \/ Turns(i, "partially_paid"))
      BY <1>6 DEF Pays, Arriving, Turns
    <2>2. CASE j = i
      <3>1. ~Pending(i) /\ (i \notin mailed' \cup waved' /\ RuleHolds(invoice[i].total) =>
                              invoice[i].total \in passed[i])
        BY <1>0, <2>1, <2>2 DEF Decided, Receivable
      <3> QED
        BY <2>1, <2>2, <3>1, TurnsDecided DEF Status
    <2> QED
      BY <1>0, <2>1, <2>2, BesidesDecided
  <1>7. CASE Settles(r)
    <2>1. PICK i \in Invoice : i = arg[r].inv
      BY <1>1, <1>7 DEF Settles
    <2>2. /\ Others(r) /\ Besides(i) /\ pc[r] \in {"approve", "reject"}
          /\ \/ pc[r] = "approve" /\ Turns(i, "approved")
             \/ pc[r] = "reject" /\ Turns(i, "draft")
      BY <1>7, <2>1 DEF Settles, Turns
    <2>3. CASE j = i
      <3>1. ~Pending(i) /\ (pc[r] = "approve" => invoice[i].total \in passed[i])
        BY <1>0, <2>1, <2>2 DEF ReviewersFit, Reviews, Its
      <3>2. {"approved", "draft"} \subseteq Status \ {"pending_approval"}
            /\ ~Receivable("draft")
        BY DEF Status, Receivable
      <3> QED
        BY <2>2, <2>3, <3>1, <3>2, TurnsDecided
    <2> QED
      BY <1>0, <2>1, <2>2, <2>3, BesidesDecided
  <1>8. CASE Mails(r)
    <2>1. PICK i \in Invoice : i = arg[r].inv
      BY <1>1, <1>8 DEF Mails
    <2>2. Others(r) /\ Besides(i) /\ pc[r] = "mail" /\ Turns(i, "sent") /\ i \in mailed'
      BY <1>8, <2>1 DEF Mails, Turns
    <2>3. CASE j = i
      <3>1. ~Pending(i)
        BY <1>0, <1>2, <2>1, <2>2, <2>3 DEF Alone, Its, Decided, Unguarded
      <3> QED
        BY <2>2, <2>3, <3>1, TurnsDecided DEF Status
    <2> QED
      BY <1>0, <2>1, <2>2, <2>3, BesidesDecided
  <1>9. CASE Reprices(r)
    <2>1. PICK i \in Invoice : i = arg[r].inv
      BY <1>1, <1>9 DEF Reprices
    <2>2. /\ Others(r) /\ Besides(i) /\ pc[r] = "edit"
          /\ invoice'[i].status = Its(r).status /\ queue'[i] = queue[i]
      BY <1>9, <2>1 DEF Reprices
    <2>3. CASE j = i
      <3>1. Its(r).status = "draft" /\ ~Pending(i)
        BY <1>0, <1>2, <2>1, <2>2, <2>3 DEF Alone, Its, Decided, Unguarded
      <3> QED
        BY <2>2, <2>3, <3>1 DEF Decided, Pending, Receivable
    <2> QED
      BY <1>0, <2>1, <2>2, <2>3, BesidesDecided
  <1>10. CASE Applies(r)
    <2>1. PICK i \in Invoice : i = arg[r].inv
      BY <1>1, <1>10 DEF Applies
    <2>2. Others(r) /\ Besides(i) /\ pc[r] = "apply" /\ Alone(r)
      BY <1>2, <1>10, <2>1 DEF Applies, Unguarded
    <2> QED
      BY <1>0, <1>10, <2>1, <2>2, BesidesDecided, AppliesDecided
  <1> QED
    BY <1>3, <1>4, <1>5, <1>6, <1>7, <1>8, <1>9, <1>10 DEF Moves, Retries

-----------------------------------------------------------------------------
(* The theorems *)

LEMMA TypedInit == Init => Typed /\ WritersFit /\ ReviewersFit /\ AllDecided
  <1> SUFFICES ASSUME Init PROVE Typed /\ WritersFit /\ ReviewersFit /\ AllDecided
    OBVIOUS
  <1>1. NoInvoice \in Row /\ NoInvoice.status = "none" /\ NoArg \in Held
        /\ <<>> \in Seq(Decision)
    BY DEF NoInvoice, NoArg, Row, Held, Status
  <1>2. Typed
    <2>1. invoice \in [Invoice -> Row] /\ arg \in [Req -> Held]
      BY <1>1 DEF Init
    <2>2. queue \in [Invoice -> Seq(Decision)] /\ passed \in [Invoice -> SUBSET Nat]
      BY <1>1 DEF Init
    <2>3. /\ pc \in [Req -> {"idle"} \cup Working] /\ \A r \in Req : pc[r] = "idle"
          /\ balance \in Int /\ retried \in Nat
      BY DEF Init
    <2>4. mixed \in BOOLEAN
      BY Zenon DEF Init
    <2> QED
      BY <2>1, <2>2, <2>3, <2>4 DEF Typed
  <1>3. WritersFit /\ ReviewersFit
    BY DEF Init, WritersFit, ReviewersFit, Unguarded
  <1>4. AllDecided
    BY <1>1 DEF Init, AllDecided, Decided, Pending, Receivable
  <1> QED
    BY <1>2, <1>3, <1>4

\* Who writes without asking is alone, as long as requests are orderly.
LEMMA WritersAlone == Spec => [](Typed /\ WritersFit)
  <1>1. Typed /\ WritersFit /\ [Next]_vars => (Typed /\ WritersFit)'
    <2> SUFFICES ASSUME Typed, WritersFit, [Next]_vars PROVE Typed' /\ WritersFit'
      OBVIOUS
    <2>1. Typed'
      BY TypeStep
    <2>2. CASE Orderly'
      <3>1. Orderly
        BY <2>2, StaysOrderly
      <3>2. CASE Next
        BY <2>1, <2>2, <3>1, <3>2, NextMoves, WritersStep
      <3>3. CASE UNCHANGED vars
        BY <2>1, <3>3 DEF vars, WritersFit, Orderly, Alone, Its, MayApply
      <3> QED
        BY <3>2, <3>3
    <2>3. CASE ~Orderly'
      BY <2>1, <2>3 DEF WritersFit
    <2> QED
      BY <2>1, <2>2, <2>3
  <1> QED
    BY <1>1, TypedInit, PTL DEF Spec

\* And then reviewers find the invoice whose entry they took, and every held invoice can
\* be decided.
LEMMA AlwaysDecided == Spec => [](Typed /\ AllDecided)
  <1> DEFINE IInv == Typed /\ WritersFit /\ ReviewersFit /\ AllDecided
  <1>1. IInv /\ [Next]_vars => IInv'
    <2> SUFFICES ASSUME Typed, WritersFit, ReviewersFit, AllDecided, [Next]_vars PROVE IInv'
      OBVIOUS
    <2>1. Typed'
      BY TypeStep
    <2>2. CASE Orderly'
      <3>1. Orderly
        BY <2>2, StaysOrderly
      <3>2. CASE Next
        <4>1. PICK r \in Req : Moves(r)
          BY <3>1, <3>2, NextMoves
        <4> QED
          BY <2>1, <2>2, <3>1, <4>1, WritersStep, ReviewersStep, DecidedStep
      <3>3. CASE UNCHANGED vars
        <4>1. WritersFit'
          BY <2>1, <3>3 DEF vars, WritersFit, Orderly, Alone, Its, MayApply
        <4>2. ReviewersFit'
          BY <3>3 DEF vars, ReviewersFit, Orderly, Reviews, Its, Pending
        <4>3. AllDecided'
          BY <3>3 DEF vars, AllDecided, Orderly, Decided, Pending, UnderReview
        <4> QED
          BY <2>1, <4>1, <4>2, <4>3
      <3> QED
        BY <3>2, <3>3
    <2>3. CASE ~Orderly'
      BY <2>1, <2>3 DEF WritersFit, ReviewersFit, AllDecided
    <2> QED
      BY <2>2, <2>3
  <1>2. Init => IInv
    BY TypedInit
  <1>3. IInv => Typed /\ AllDecided
    OBVIOUS
  <1> QED
    BY <1>1, <1>2, <1>3, PTL DEF Spec

\* A held invoice is decided on once: an entry of the Approval Queue is open for it or its
\* reviewer is on the way, unless the status endpoint itself was asked to hold it; an open
\* entry is the only one and about a held invoice; and what a rule holds is owed only after a
\* manager let that total through, or an accountant did at the status endpoint, or by mail.
\* So it is for every number of invoices, clients and cut-off requests, whatever is asked of
\* the endpoint, as long as no unguarded handler runs beside another and none is retried
\* (approveItem, rejectItem, applyStatusChange).
THEOREM HeldAreDecided == Spec => []HeldIsDecided
  <1>1. ASSUME NEW i \in Invoice, Typed, Decided(i)
        PROVE  Cardinality({n \in DOMAIN queue[i] : queue[i][n] = "pending"}) <= 1
    <2> DEFINE open == {n \in DOMAIN queue[i] : queue[i][n] = "pending"}
    <2>1. CASE open = {}
      BY <2>1, FS_EmptySet
    <2>2. CASE open # {}
      <3>1. PICK n : n \in open
        BY <2>2
      <3>2. open = {n}
        BY <1>1, <3>1 DEF Decided
      <3> QED
        BY <3>2, FS_Singleton
    <2> QED
      BY <2>1, <2>2
  <1>2. ASSUME Typed, AllDecided PROVE HeldIsDecided
    <2>1. HeldHasEntry
      BY <1>2 DEF HeldHasEntry, AllDecided, Decided
    <2>2. EntryIsAboutHeld
      BY <1>1, <1>2 DEF EntryIsAboutHeld, AllDecided, Decided
    <2>3. HeldUntilApproved
      BY <1>2 DEF HeldUntilApproved, AllDecided, Decided
    <2> QED
      BY <2>1, <2>2, <2>3 DEF HeldIsDecided
  <1> QED
    BY <1>2, AlwaysDecided, PTL

\* What a move of the orderly part of a behaviour does to totals and dead documents.
LEMMA MovesUndoNothing ==
  ASSUME Typed, WritersFit, Orderly, NEW r \in Req, Moves(r), NEW i \in Invoice
  PROVE  /\ invoice[i].total # invoice'[i].total => invoice[i].status \in {"none", "draft"}
         /\ invoice[i].status \in {"void", "cancelled", "paid"} =>
              \/ invoice'[i].status = invoice[i].status
              \/ invoice[i].status = "void" /\ invoice'[i].status = "cancelled"
  <1>1. pc[r] \in Unguarded => Alone(r)
    BY DEF Moves, WritersFit
  <1> SUFFICES ASSUME invoice'[i] # invoice[i]
               PROVE  /\ invoice[i].total # invoice'[i].total =>
                           invoice[i].status \in {"none", "draft"}
                      /\ invoice[i].status \in {"void", "cancelled", "paid"} =>
                           \/ invoice'[i].status = invoice[i].status
                           \/ invoice[i].status = "void" /\ invoice'[i].status = "cancelled"
    OBVIOUS
  <1>2. \A j \in Invoice : Besides(j) => i = j
    BY DEF Besides
  <1>3. ~Looks(r) /\ ~Leaves(r) /\ ~Dies(r) /\ ~Retries
    BY DEF Looks, Leaves, Dies, Stands, Retries
  <1>4. ASSUME NEW j \in Invoice, Creates(r, j) PROVE invoice[i].status = "none"
    BY <1>2, <1>4 DEF Creates
  <1>5. \A j \in Invoice : \A n \in DOMAIN queue[j] : ~Claims(r, j, n)
    BY DEF Claims
  <1>6. ASSUME NEW j \in Invoice, Pays(r, j)
        PROVE  Receivable(invoice[i].status) /\ invoice'[i].total = invoice[i].total
    BY <1>2, <1>6 DEF Pays, Turns
  <1>7. Settles(r) \/ Mails(r) \/ Reprices(r) \/ Applies(r) => i = arg[r].inv
    BY <1>2 DEF Settles, Mails, Reprices, Applies, Turns, Typed
  <1>8. CASE Settles(r)
    BY <1>7, <1>8 DEF Settles, Turns, Its
  <1>9. CASE Mails(r)
    <2>1. invoice[i].status \in {"draft", "approved"} /\ invoice'[i].total = invoice[i].total
      BY <1>1, <1>7, <1>9 DEF Mails, Turns, Alone, Its, Unguarded
    <2> QED
      BY <2>1
  <1>10. CASE Reprices(r)
    <2>1. invoice[i].status = "draft"
      BY <1>1, <1>7, <1>10 DEF Reprices, Alone, Its, Unguarded
    <2> QED
      BY <2>1
  <1>11. CASE Applies(r)
    <2>1. /\ invoice[i].status = arg[r].from /\ invoice'[i].status = arg[r].to
          /\ invoice'[i].total = invoice[i].total
          /\ \/ arg[r].to \in Allowed[arg[r].from]
             \/ arg[r].to = "cancelled" /\ arg[r].from # "paid"
      BY <1>1, <1>7, <1>11 DEF Applies, Alone, MayApply, Its, Unguarded
    <2>2. arg[r].from \in Status
      BY <1>11, WorkingFields DEF Applies
    <2>3. arg[r].to \in Allowed[arg[r].from] =>
            arg[r].from \notin {"void", "cancelled", "paid"}
      BY <2>2, AllowedFacts
    <2> QED
      BY <2>1, <2>3
  <1> QED
    BY <1>3, <1>4, <1>5, <1>6, <1>8, <1>9, <1>10, <1>11 DEF Moves, Receivable

\* A decision stands, whoever runs beside whom.
LEMMA DecisionsStand ==
  ASSUME Typed, [Next]_vars, NEW i \in Invoice, NEW n \in DOMAIN queue[i]
  PROVE  /\ n \in DOMAIN queue'[i]
         /\ queue[i][n] # "pending" => queue'[i][n] = queue[i][n]
  <1>1. queue \in [Invoice -> Seq(Decision)] /\ queue[i] \in Seq(Decision)
    BY DEF Typed
  <1> DEFINE Stand(q) == n \in DOMAIN q /\ (queue[i][n] # "pending" => q[n] = queue[i][n])
  <1>2. Stand(queue[i])
    OBVIOUS
  <1>3. ASSUME NEW q \in Seq(Decision), Stand(q), NEW d PROVE Stand(Append(q, d))
    <2>1. n \in 1..Len(q) /\ Len(q) \in Nat
      BY <1>3
    <2> QED
      BY <1>3, <2>1
  <1>4. ASSUME NEW d \in {"approved", "rejected"}
        PROVE  CloseEntries(queue[i], d) \in Seq(Decision) /\ Stand(CloseEntries(queue[i], d))
    <2>1. /\ CloseEntries(queue[i], d) \in Seq(Decision)
          /\ Len(CloseEntries(queue[i], d)) = Len(queue[i])
          /\ queue[i][n] # "pending" => CloseEntries(queue[i], d)[n] = queue[i][n]
      BY <1>1, ClosedFields
    <2>2. n \in DOMAIN CloseEntries(queue[i], d)
      BY <1>1, <2>1
    <2> QED
      BY <2>1, <2>2
  <1> SUFFICES Stand(queue'[i])
    OBVIOUS
  <1>5. ASSUME NEW r \in Req, Receive(r) PROVE Stand(queue'[i])
    <2>1. ASSUME NEW j \in Invoice, NEW asked \in {"draft", "sent"}, NEW total \in Amount,
                 CreateInvoice(r, j, asked, total)
          PROVE  Stand(queue'[i])
      <3>1. queue'[i] \in {queue[i], Append(queue[i], "pending")}
        BY <1>1, <2>1 DEF CreateInvoice
      <3> HIDE DEF Stand
      <3> QED
        BY <1>1, <1>2, <1>3, <3>1
    <2>2. ASSUME NEW j \in Invoice,
                 \/ \E to \in AskedStatus : ReadForStatus(r, j, to)
                 \/ ReadForDelete(r, j) \/ ReadForEdit(r, j) \/ ReadForEmail(r, j)
          PROVE  queue' = queue
      BY <2>2 DEF ReadForStatus, ReadForDelete, ReadForEdit, ReadForEmail
    <2>3. ASSUME NEW j \in Invoice, NEW m \in DOMAIN queue[j],
                 NEW d \in {"approved", "rejected"}, Claim(r, j, m, d)
          PROVE  Stand(queue'[i])
      <3>1. queue' = [queue EXCEPT ![j] = [queue[j] EXCEPT ![m] = d]] /\ queue[j][m] = "pending"
        BY <2>3 DEF Claim
      <3>2. CASE i = j
        <4>1. queue'[i] = [queue[i] EXCEPT ![m] = d]
          BY <1>1, <3>1, <3>2
        <4> QED
          BY <3>1, <3>2, <4>1
      <3>3. CASE i # j
        BY <1>1, <1>2, <3>1, <3>3
      <3> QED
        BY <3>2, <3>3
    <2>4. ASSUME NEW j \in Invoice, NEW a \in Amount, Pay(r, j, a) PROVE queue' = queue
      BY <2>4 DEF Pay
    <2> HIDE DEF Stand
    <2> QED
      BY <1>2, <1>5, <2>1, <2>2, <2>3, <2>4 DEF Receive
  <1>6. ASSUME NEW r \in Req, pc[r] # "idle", StatusEffects(r) PROVE Stand(queue'[i])
    <2> DEFINE d == IF arg[r].to = "approved" THEN "approved" ELSE "rejected"
               closed == IF arg[r].from = "pending_approval" THEN CloseEntries(queue[i], d)
                                                            ELSE queue[i]
    <2>1. CASE i = arg[r].inv
      <3>1. queue'[i] = IF arg[r].hold THEN Append(closed, "pending") ELSE closed
        BY <1>1, <1>6, <2>1 DEF StatusEffects
      <3>2. d \in {"approved", "rejected"}
        OBVIOUS
      <3> HIDE DEF d, Stand
      <3>3. closed \in Seq(Decision) /\ Stand(closed)
        BY <1>1, <1>2, <1>4, <3>2
      <3> HIDE DEF closed
      <3> QED
        BY <1>3, <3>1, <3>3
    <2>2. CASE i # arg[r].inv
      BY <1>1, <1>2, <1>6, <2>2 DEF StatusEffects
    <2> QED
      BY <2>1, <2>2
  <1> HIDE DEF Stand
  <1>7. ASSUME NEW r \in Req, Step(r) PROVE Stand(queue'[i])
    <2>1. ApplyStatus(r) \/ ApplyStatusRetried(r) => StatusEffects(r) /\ pc[r] # "idle"
      BY DEF ApplyStatus, ApplyStatusRetried, At
    <2>2. (\E total \in Amount : SaveEdit(r, total)) \/ MarkSent(r) \/ PostDelta(r)
          \/ ApproveInvoice(r) \/ RejectInvoice(r) => queue' = queue
      BY DEF SaveEdit, MarkSent, PostDelta, ApproveInvoice, RejectInvoice
    <2> QED
      BY <1>2, <1>6, <1>7, <2>1, <2>2 DEF Step
  <1>8. ASSUME NEW r \in Req, CutOff(r) PROVE queue' = queue
    BY <1>8 DEF CutOff
  <1> QED
    BY <1>2, <1>5, <1>7, <1>8 DEF Next, vars

\* What was issued, settled or decided is not taken back: only drafts get a new amount, a paid,
\* void or cancelled invoice stays so (a void one may be cancelled by a deletion), and a queue
\* entry that was decided is not decided again, nor lost.  The first two hold as long as
\* requests are orderly, the last always (updateInvoice, applyStatusChange, claimPendingItem).
THEOREM NothingEverUndone == Spec => NothingIsUndone
  <1> DEFINE Priced == Orderly => \A i \in Invoice : invoice[i].total # invoice'[i].total =>
                         invoice[i].status \in {"none", "draft"}
             Dead == Orderly => \A i \in Invoice :
                       invoice[i].status \in {"void", "cancelled", "paid"} =>
                         \/ invoice'[i].status = invoice[i].status
                         \/ invoice[i].status = "void" /\ invoice'[i].status = "cancelled"
             Final == \A i \in Invoice : \A n \in DOMAIN queue[i] :
                        /\ n \in DOMAIN queue'[i]
                        /\ queue[i][n] # "pending" => queue'[i][n] = queue[i][n]
  <1>1. Typed /\ WritersFit /\ [Next]_vars => [Priced]_vars /\ [Dead]_vars
    <2> SUFFICES ASSUME Typed, WritersFit, Next, Orderly PROVE Priced /\ Dead
      OBVIOUS
    <2>1. PICK r \in Req : Moves(r)
      BY NextMoves
    <2> QED
      BY <2>1, MovesUndoNothing
  <1>2. Typed /\ WritersFit /\ [Next]_vars => [Final]_vars
    BY DecisionsStand
  <1>3. Spec => [][Priced]_vars /\ [][Dead]_vars /\ [][Final]_vars
    <2> HIDE DEF Priced, Dead, Final
    <2> QED
      BY <1>1, <1>2, WritersAlone, PTL DEF Spec
  <1> QED
    BY <1>3 DEF NothingIsUndone, OnlyDraftsAreEdited, DeadStaysDead, DecisionsAreFinal
-----------------------------------------------------------------------------
(* The customer's balance *)

\* What was paid and what is due make up the total, and only a document that
\* left the endpoint's hands was paid on.
Booked(i) ==
  /\ invoice[i].paid + invoice[i].due = invoice[i].total
  /\ invoice[i].paid > 0 => invoice[i].status \in {"partially_paid", "paid", "overdue"}

\* A request that will write the status knows by how much the balance changes.
Ready(r) ==
  /\ arg[r].delta = StatusDelta(arg[r].from, arg[r].to, Its(r).due)
  /\ arg[r].to = "cancelled" => Its(r).paid = 0
  /\ pc[r] = "mail" => arg[r].to = "sent"
ReadyFit == Orderly => \A r \in Req \ dead : pc[r] \in {"apply", "mail"} => Ready(r)

Balanced == balance + Lag = Owed /\ \A i \in Invoice : Booked(i)
BalancedFit == Orderly => Balanced

LEMMA DeltaIsDue ==
  ASSUME NEW s, NEW t, NEW d \in Int
  PROVE  StatusDelta(s, t, d) = (IF Receivable(t) THEN d ELSE 0) - (IF Receivable(s) THEN d ELSE 0)
  <1>1. CASE Receivable(s) = Receivable(t)
    BY <1>1 DEF StatusDelta, Receivable
  <1>2. CASE Receivable(s) # Receivable(t)
    <2>1. CASE Receivable(t)
      BY <1>2, <2>1 DEF StatusDelta, Receivable
    <2>2. CASE ~Receivable(t)
      BY <1>2, <2>2 DEF StatusDelta, Receivable
    <2> QED
      BY <2>1, <2>2
  <1> QED
    BY <1>1, <1>2

LEMMA LedgerTypes ==
  ASSUME Typed
  PROVE  /\ [i \in Invoice |-> Due(i)] \in [Invoice -> Int]
         /\ [r \in Req |-> Behind(r)] \in [Req -> Int]
         /\ Owed \in Int /\ Lag \in Int /\ balance \in Int
  <1>1. [i \in Invoice |-> Due(i)] \in [Invoice -> Int]
    BY DEF Typed, Row, Due
  <1>2. [r \in Req |-> Behind(r)] \in [Req -> Int]
    BY DEF Typed, Held, Behind
  <1> QED
    BY <1>1, <1>2, LifecycleAssumption, TotalInt DEF Owed, Lag, Typed

LEMMA LedgerTypesNext ==
  ASSUME Typed'
  PROVE  /\ [i \in Invoice |-> Due(i)'] \in [Invoice -> Int]
         /\ [r \in Req |-> Behind(r)'] \in [Req -> Int]
  <1>1. \A i \in Invoice : invoice'[i].due \in Int
    <2>1. invoice' \in [Invoice -> Row]
      BY DEF Typed
    <2> QED
      BY <2>1 DEF Row
  <1>2. \A r \in Req : arg'[r].delta \in Int
    <2>1. arg' \in [Req -> Held]
      BY DEF Typed
    <2> QED
      BY <2>1 DEF Held
  <1> QED
    BY <1>1, <1>2 DEF Due, Behind

\* A step of one request leaves what the others still have to post.
LEMMA OthersPost ==
  ASSUME Typed, NEW r \in Req, Receive(r) \/ Step(r), NEW q \in Req \ {r}
  PROVE  Behind(q)' = Behind(q)
  <1>0. arg \in [Req -> Held] /\ pc \in [Req -> {"idle"} \cup Working] /\ arg[q] \in Held
    BY DEF Typed
  <1>1. CASE Receive(r)
    <2> DEFINE Reads == \E h, where : arg' = [arg EXCEPT ![r] = h] /\ Goto(r, where)
    <2>1. \A i \in Invoice : \A asked, total :
            CreateInvoice(r, i, asked, total) => UNCHANGED <<pc, arg>>
      BY DEF CreateInvoice
    <2>2. \A i \in Invoice : \A a : Pay(r, i, a) => UNCHANGED <<pc, arg>>
      BY DEF Pay
    <2>3. \A i \in Invoice : \A to : ReadForStatus(r, i, to) => Reads
      BY DEF ReadForStatus, Decide
    <2>4. \A i \in Invoice : ReadForDelete(r, i) \/ ReadForEdit(r, i) \/ ReadForEmail(r, i)
                               => Reads
      BY DEF ReadForDelete, ReadForEdit, ReadForEmail, Decide
    <2>5. \A i \in Invoice : \A n, d : Claim(r, i, n, d) => Reads
      BY DEF Claim, Decide
    <2>6. Reads => pc'[q] = pc[q] /\ arg'[q] = arg[q]
      BY <1>0 DEF Goto
    <2> HIDE DEF Reads
    <2>7. pc'[q] = pc[q] /\ arg'[q] = arg[q]
      BY <1>1, <2>1, <2>2, <2>3, <2>4, <2>5, <2>6 DEF Receive
    <2> QED
      BY <2>7 DEF Behind
  <1>2. ASSUME NEW total \in Amount, SaveEdit(r, total)
        PROVE  pc'[q] = pc[q] /\ arg'[q].delta = arg[q].delta
    <2>1. CASE arg[r].stale
      BY <1>0, <1>2, <2>1 DEF SaveEdit, Finish, Goto
    <2>2. CASE ~arg[r].stale
      <3>1. /\ pc' = [pc EXCEPT ![r] = "idle"]
            /\ \E b : arg'[q] = [arg[q] EXCEPT !.stale = b]
        BY <1>2, <2>2 DEF SaveEdit, Goto
      <3>2. arg'[q].delta = arg[q].delta
        BY <1>0, <3>1 DEF Held
      <3> QED
        BY <1>0, <3>1, <3>2
    <2> QED
      BY <2>1, <2>2
  <1>3. CASE \/ ApplyStatus(r) \/ ApplyStatusRetried(r) \/ MarkSent(r) \/ PostDelta(r)
             \/ ApproveInvoice(r) \/ RejectInvoice(r)
    <2>1. pc'[q] = pc[q] /\ arg'[q] = arg[q]
      BY <1>0, <1>3 DEF ApplyStatus, ApplyStatusRetried, MarkSent, PostDelta, ApproveInvoice,
                        RejectInvoice, Finish, Goto
    <2> QED
      BY <2>1 DEF Behind
  <1> QED
    BY <1>1, <1>2, <1>3 DEF Step, Behind

\* A step that writes one invoice keeps the balance in step if what it adds to
\* the balance, and to what is to be posted, it adds to what is due.
LEMMA OneInvoice ==
  ASSUME Typed, Typed', Balanced, NEW r \in Req, Receive(r) \/ Step(r), NEW i \in Invoice,
         \A j \in Invoice \ {i} : invoice'[j] = invoice[j], Booked(i)',
         (balance' - balance) + (Behind(r)' - Behind(r)) = Due(i)' - Due(i)
  PROVE  Balanced'
  <1> DEFINE d == [j \in Invoice |-> Due(j)]
             dd == [j \in Invoice |-> Due(j)']
             b == [q \in Req |-> Behind(q)]
             bb == [q \in Req |-> Behind(q)']
  <1>1. /\ d \in [Invoice -> Int] /\ dd \in [Invoice -> Int]
        /\ b \in [Req -> Int] /\ bb \in [Req -> Int]
        /\ \A j \in Invoice \ {i} : d[j] = dd[j]
        /\ \A q \in Req \ {r} : b[q] = bb[q]
        /\ d[i] = Due(i) /\ dd[i] = Due(i)' /\ b[r] = Behind(r) /\ bb[r] = Behind(r)'
    <2>1. \A j \in Invoice \ {i} : Due(j)' = Due(j)
      BY DEF Due
    <2>2. \A q \in Req \ {r} : Behind(q)' = Behind(q)
      BY OthersPost
    <2> QED
      BY <2>1, <2>2, LedgerTypes, LedgerTypesNext
  <1>2. Owed = SumFunction(d) /\ Owed' = SumFunction(dd)
    BY DEF Owed
  <1>3. Lag = SumFunction(b) /\ Lag' = SumFunction(bb)
    BY DEF Lag
  <1> HIDE DEF d, dd, b, bb
  <1>4. SumFunction(dd) = SumFunction(d) + (dd[i] - d[i])
    BY <1>1, LifecycleAssumption, TotalChange
  <1>5. SumFunction(bb) = SumFunction(b) + (bb[r] - b[r])
    BY <1>1, LifecycleAssumption, TotalChange
  <1>6. /\ Owed \in Int /\ Lag \in Int /\ balance \in Int /\ balance' \in Int
        /\ Due(i) \in Int /\ Due(i)' \in Int /\ Behind(r) \in Int /\ Behind(r)' \in Int
    <2>1. balance' \in Int
      BY DEF Typed
    <2> QED
      BY <1>1, <2>1, LedgerTypes
  <1>7. balance + Lag = Owed
    BY DEF Balanced
  <1>8. balance' + Lag' = Owed'
    BY <1>1, <1>2, <1>3, <1>4, <1>5, <1>6, <1>7
  <1>9. \A j \in Invoice : Booked(j)'
    BY DEF Balanced, Booked
  <1> QED
    BY <1>8, <1>9 DEF Balanced

\* A step that writes no invoice.
LEMMA NoInvoiceWritten ==
  ASSUME Typed, Typed', Balanced, NEW r \in Req, Receive(r) \/ Step(r), NEW i \in Invoice,
         invoice' = invoice, (balance' - balance) + (Behind(r)' - Behind(r)) = 0
  PROVE  Balanced'
  <1>1. Due(i)' = Due(i) /\ Due(i) \in Int
    BY DEF Due, Typed, Row
  <1>2. Booked(i)'
    BY DEF Balanced, Booked
  <1> QED
    BY <1>1, <1>2, OneInvoice

\* The fields of a row whose status alone is written.
LEMMA StatusRow ==
  ASSUME Typed, NEW i \in Invoice, NEW s, invoice' = [invoice EXCEPT ![i].status = s]
  PROVE  /\ invoice'[i].status = s /\ invoice'[i].total = invoice[i].total
         /\ invoice'[i].paid = invoice[i].paid /\ invoice'[i].due = invoice[i].due
         /\ \A j \in Invoice \ {i} : invoice'[j] = invoice[j]
         /\ invoice[i].paid \in Nat /\ invoice[i].due \in Nat /\ invoice[i].total \in Nat
  BY DEF Typed, Row

LEMMA PaidTransitions ==
  ASSUME NEW s \in {"partially_paid", "paid", "overdue"}, NEW t \in Allowed[s]
  PROVE  t \in {"partially_paid", "overdue"}
  <1>1. CASE s = "partially_paid"
    BY <1>1 DEF Allowed, Status
  <1>2. CASE s = "overdue"
    BY <1>2 DEF Allowed, Status
  <1>3. CASE s = "paid"
    BY <1>3 DEF Allowed, Status
  <1> QED
    BY <1>1, <1>2, <1>3

LEMMA ApplyBalanced ==
  ASSUME Typed, Typed', Balanced, NEW r \in Req, Step(r), Alone(r), Ready(r), ApplyStatus(r)
  PROVE  Balanced'
  <1>0. PICK i \in Invoice : i = arg[r].inv
    BY WorkingFields DEF ApplyStatus, At
  <1>1. /\ pc[r] = "apply" /\ arg[r].delta \in Int /\ pc'[r] = "idle"
        /\ balance' = balance + arg[r].delta /\ balance \in Int
    BY WorkingFields DEF ApplyStatus, At, Finish, Goto, StatusEffects, Typed
  <1>2. invoice[i].status = arg[r].from
    BY <1>0 DEF Alone, Its
  <1>3. invoice' = [invoice EXCEPT ![i].status = arg[r].to]
    BY <1>0, <1>1, <1>2 DEF ApplyStatus, Typed
  <1>4. /\ invoice'[i].status = arg[r].to /\ invoice'[i].total = invoice[i].total
        /\ invoice'[i].paid = invoice[i].paid /\ invoice'[i].due = invoice[i].due
        /\ \A j \in Invoice \ {i} : invoice'[j] = invoice[j]
        /\ invoice[i].paid \in Nat /\ invoice[i].due \in Nat /\ invoice[i].total \in Nat
    BY <1>1, <1>3, StatusRow
  <1>5. Behind(r) = 0 /\ Behind(r)' = 0
    BY <1>1 DEF Behind
  <1>6. Due(i)' - Due(i) = arg[r].delta
    <2>1. arg[r].delta = (IF Receivable(arg[r].to) THEN invoice[i].due ELSE 0)
                           - (IF Receivable(arg[r].from) THEN invoice[i].due ELSE 0)
      BY <1>0, <1>4, DeltaIsDue DEF Ready, Its
    <2> QED
      BY <1>2, <1>4, <2>1 DEF Due
  <1>7. Booked(i)'
    <2>1. CASE invoice[i].paid > 0
      <3>1. arg[r].from \in {"partially_paid", "paid", "overdue"}
        BY <1>1, <1>2, <2>1 DEF Balanced, Booked
      <3>2. arg[r].to \in Allowed[arg[r].from]
        BY <1>0, <1>1, <1>4, <2>1 DEF Alone, MayApply, Ready, Its
      <3>3. arg[r].to \in {"partially_paid", "overdue"}
        BY <3>1, <3>2, PaidTransitions
      <3> QED
        BY <1>1, <1>4, <3>3 DEF Balanced, Booked
    <2>2. CASE ~(invoice[i].paid > 0)
      BY <1>1, <1>4, <2>2 DEF Balanced, Booked
    <2> QED
      BY <2>1, <2>2
  <1>8. (balance' - balance) + (Behind(r)' - Behind(r)) = Due(i)' - Due(i)
    BY <1>1, <1>5, <1>6
  <1> QED
    BY <1>4, <1>7, <1>8, OneInvoice

LEMMA SentBalanced ==
  ASSUME Typed, Typed', Balanced, NEW r \in Req, Step(r), Alone(r), Ready(r), MarkSent(r)
  PROVE  Balanced'
  <1>0. PICK i \in Invoice : i = arg[r].inv
    BY WorkingFields DEF MarkSent, At
  <1>1. /\ pc[r] = "mail" /\ arg[r].delta \in Int /\ arg[r].to = "sent"
        /\ balance' = balance /\ balance \in Int
        /\ invoice' = [invoice EXCEPT ![i].status = "sent"]
    BY <1>0, WorkingFields DEF MarkSent, At, Typed, Ready
  <1>2. invoice[i].status = arg[r].from /\ arg[r].from \in {"draft", "approved"}
    BY <1>0, <1>1 DEF Alone, Its
  <1>3. /\ invoice'[i].status = "sent" /\ invoice'[i].total = invoice[i].total
        /\ invoice'[i].paid = invoice[i].paid /\ invoice'[i].due = invoice[i].due
        /\ \A j \in Invoice \ {i} : invoice'[j] = invoice[j]
        /\ invoice[i].paid \in Nat /\ invoice[i].due \in Nat /\ invoice[i].total \in Nat
    BY <1>1, StatusRow
  <1>4. Behind(r) = 0 /\ Behind(r)' = arg[r].delta
    <2>1. Behind(r) = 0
      BY <1>1 DEF Behind
    <2>2. CASE arg[r].delta = 0
      <3>1. pc'[r] = "idle"
        BY <2>2 DEF MarkSent, Finish, Goto, Typed
      <3> QED
        BY <2>1, <2>2, <3>1 DEF Behind
    <2>3. CASE arg[r].delta # 0
      <3>1. pc'[r] = "post" /\ arg' = arg
        BY <2>3 DEF MarkSent, Goto, Typed
      <3> QED
        BY <2>1, <3>1 DEF Behind
    <2> QED
      BY <2>2, <2>3
  <1>5. Due(i)' - Due(i) = arg[r].delta
    <2>1. arg[r].delta = (IF Receivable(arg[r].to) THEN invoice[i].due ELSE 0)
                           - (IF Receivable(arg[r].from) THEN invoice[i].due ELSE 0)
      BY <1>0, <1>3, DeltaIsDue DEF Ready, Its
    <2> QED
      BY <1>1, <1>2, <1>3, <2>1 DEF Due
  <1>6. Booked(i)'
    BY <1>2, <1>3 DEF Balanced, Booked
  <1>7. (balance' - balance) + (Behind(r)' - Behind(r)) = Due(i)' - Due(i)
    BY <1>1, <1>4, <1>5
  <1> QED
    BY <1>3, <1>6, <1>7, OneInvoice

LEMMA PostBalanced ==
  ASSUME Typed, Typed', Balanced, NEW r \in Req, Step(r), PostDelta(r)
  PROVE  Balanced'
  <1>0. PICK i \in Invoice : i = arg[r].inv
    BY WorkingFields DEF PostDelta, At
  <1>1. /\ pc[r] = "post" /\ arg[r].delta \in Int /\ invoice' = invoice /\ pc'[r] = "idle"
        /\ balance' = balance + arg[r].delta /\ balance \in Int
    BY WorkingFields DEF PostDelta, At, Typed, Finish, Goto
  <1>2. Behind(r) = arg[r].delta /\ Behind(r)' = 0
    BY <1>1 DEF Behind
  <1>3. (balance' - balance) + (Behind(r)' - Behind(r)) = 0
    BY <1>1, <1>2
  <1> QED
    BY <1>1, <1>3, NoInvoiceWritten

LEMMA ApprovedBalanced ==
  ASSUME Typed, Typed', Balanced, NEW r \in Req, Step(r), ApproveInvoice(r)
  PROVE  Balanced'
  <1>0. PICK i \in Invoice : i = arg[r].inv
    BY WorkingFields DEF ApproveInvoice, At
  <1>1. /\ pc[r] = "approve" /\ balance' = balance /\ balance \in Int /\ Behind(r) = 0
    BY DEF ApproveInvoice, At, Typed, Behind
  <1>2. CASE invoice[i].status = "pending_approval"
    <2>1. /\ invoice' = [invoice EXCEPT ![i].status = "approved"]
          /\ arg' = [arg EXCEPT ![r].delta = invoice[i].due] /\ Goto(r, "post")
      BY <1>0, <1>2 DEF ApproveInvoice
    <2>2. /\ invoice'[i].status = "approved" /\ invoice'[i].total = invoice[i].total
          /\ invoice'[i].paid = invoice[i].paid /\ invoice'[i].due = invoice[i].due
          /\ \A j \in Invoice \ {i} : invoice'[j] = invoice[j]
          /\ invoice[i].paid \in Nat /\ invoice[i].due \in Nat /\ invoice[i].total \in Nat
      BY <2>1, StatusRow
    <2>3. Behind(r)' = invoice[i].due
      <3>1. pc'[r] = "post"
        BY <2>1 DEF Goto, Typed
      <3>2. arg'[r].delta = invoice[i].due
        BY <2>1 DEF Typed, Held
      <3> QED
        BY <3>1, <3>2 DEF Behind
    <2>4. Due(i)' = invoice[i].due /\ Due(i) = 0
      BY <1>2, <2>2 DEF Due, Receivable
    <2>5. Booked(i)'
      BY <1>2, <2>2 DEF Balanced, Booked
    <2>6. (balance' - balance) + (Behind(r)' - Behind(r)) = Due(i)' - Due(i)
      BY <1>1, <2>2, <2>3, <2>4
    <2> QED
      BY <2>2, <2>5, <2>6, OneInvoice
  <1>3. CASE invoice[i].status # "pending_approval"
    <2>1. invoice' = invoice /\ pc'[r] = "idle"
      BY <1>0, <1>3 DEF ApproveInvoice, Finish, Goto, Typed
    <2>2. Behind(r)' = 0
      BY <2>1 DEF Behind
    <2>3. (balance' - balance) + (Behind(r)' - Behind(r)) = 0
      BY <1>1, <2>2
    <2> QED
      BY <2>1, <2>3, NoInvoiceWritten
  <1> QED
    BY <1>2, <1>3

LEMMA RejectedBalanced ==
  ASSUME Typed, Typed', Balanced, NEW r \in Req, Step(r), RejectInvoice(r)
  PROVE  Balanced'
  <1>0. PICK i \in Invoice : i = arg[r].inv
    BY WorkingFields DEF RejectInvoice, At
  <1>1. /\ pc[r] = "reject" /\ pc'[r] = "idle" /\ balance' = balance /\ balance \in Int
    BY DEF RejectInvoice, At, Finish, Goto, Typed
  <1>2. Behind(r) = 0 /\ Behind(r)' = 0
    BY <1>1 DEF Behind
  <1> DEFINE s == IF invoice[i].status = "pending_approval" THEN "draft" ELSE invoice[i].status
  <1>3. invoice' = [invoice EXCEPT ![i].status = s]
    <2>1. CASE invoice[i].status = "pending_approval"
      <3>1. invoice' = [invoice EXCEPT ![i].status = "draft"]
        BY <1>0, <2>1 DEF RejectInvoice
      <3> QED
        BY <2>1, <3>1
    <2>2. CASE invoice[i].status # "pending_approval"
      <3>1. invoice' = [invoice EXCEPT ![i].status = invoice[i].status]
        BY <1>0, <2>2 DEF RejectInvoice, Typed
      <3> QED
        BY <2>2, <3>1
    <2> QED
      BY <2>1, <2>2
  <1>8. s = IF invoice[i].status = "pending_approval" THEN "draft" ELSE invoice[i].status
    OBVIOUS
  <1> HIDE DEF s
  <1>4. /\ invoice'[i].status = s /\ invoice'[i].total = invoice[i].total
        /\ invoice'[i].paid = invoice[i].paid /\ invoice'[i].due = invoice[i].due
        /\ \A j \in Invoice \ {i} : invoice'[j] = invoice[j]
        /\ invoice[i].paid \in Nat /\ invoice[i].due \in Nat /\ invoice[i].total \in Nat
    BY <1>3, StatusRow
  <1>5. Due(i)' = Due(i) /\ Due(i) \in Int
    BY <1>4, <1>8 DEF Due, Receivable
  <1>6. Booked(i)'
    <2>1. Booked(i)
      BY DEF Balanced
    <2>2. invoice[i].paid > 0 => s = invoice[i].status
      BY <1>8, <2>1 DEF Booked
    <2> QED
      BY <1>4, <2>1, <2>2 DEF Booked
  <1>7. (balance' - balance) + (Behind(r)' - Behind(r)) = Due(i)' - Due(i)
    BY <1>1, <1>2, <1>5
  <1> QED
    BY <1>4, <1>6, <1>7, OneInvoice

LEMMA EditBalanced ==
  ASSUME Typed, Typed', Balanced, NEW r \in Req, Step(r), Alone(r),
         NEW total \in Amount, SaveEdit(r, total)
  PROVE  Balanced'
  <1>0. PICK i \in Invoice : i = arg[r].inv
    BY WorkingFields DEF SaveEdit, At
  <1>1. /\ pc[r] = "edit" /\ pc'[r] = "idle" /\ balance' = balance /\ balance \in Int
    BY DEF SaveEdit, At, Finish, Goto, Typed
  <1>2. Behind(r) = 0 /\ Behind(r)' = 0
    BY <1>1 DEF Behind
  <1>3. CASE invoice' = invoice
    <2>1. (balance' - balance) + (Behind(r)' - Behind(r)) = 0
      BY <1>1, <1>2
    <2> QED
      BY <1>3, <2>1, NoInvoiceWritten
  <1>4. CASE invoice' = [invoice EXCEPT ![i].total = total, ![i].due = total]
    <2>1. invoice[i].status = "draft"
      BY <1>0, <1>1 DEF Alone, Its
    <2>2. /\ invoice'[i].status = "draft" /\ invoice'[i].total = total
          /\ invoice'[i].due = total /\ invoice'[i].paid = invoice[i].paid
          /\ \A j \in Invoice \ {i} : invoice'[j] = invoice[j]
          /\ invoice[i].paid \in Nat /\ total \in Nat
      BY <1>4, <2>1, LifecycleAssumption DEF Typed, Row
    <2>3. Due(i)' = 0 /\ Due(i) = 0
      BY <2>1, <2>2 DEF Due, Receivable
    <2>4. Booked(i)'
      BY <2>1, <2>2 DEF Balanced, Booked
    <2>5. (balance' - balance) + (Behind(r)' - Behind(r)) = Due(i)' - Due(i)
      BY <1>1, <1>2, <2>3
    <2> QED
      BY <2>2, <2>4, <2>5, OneInvoice
  <1> QED
    BY <1>0, <1>3, <1>4 DEF SaveEdit

LEMMA CreateBalanced ==
  ASSUME Typed, Typed', Balanced, NEW r \in Req, Receive(r), NEW i \in Invoice,
         NEW asked \in {"draft", "sent"}, NEW total \in Amount, CreateInvoice(r, i, asked, total)
  PROVE  Balanced'
  <1> DEFINE status == IF RuleHolds(total) THEN "pending_approval" ELSE asked
             row == [status |-> status, total |-> total, paid |-> 0, due |-> total]
  <1>1. /\ invoice' = [invoice EXCEPT ![i] = row] /\ invoice[i].status = "none"
        /\ balance' = balance + (IF status = "sent" THEN total ELSE 0)
        /\ pc' = pc /\ arg' = arg /\ balance \in Int /\ total \in Nat
    BY LifecycleAssumption DEF CreateInvoice, Typed
  <1>2. status \in {"draft", "sent", "pending_approval"}
    OBVIOUS
  <1>3. /\ invoice'[i].status = status /\ invoice'[i].total = total
        /\ invoice'[i].due = total /\ invoice'[i].paid = 0
        /\ \A j \in Invoice \ {i} : invoice'[j] = invoice[j]
    BY <1>1 DEF Typed
  <1> HIDE DEF status, row
  <1>4. Due(i) = 0 /\ Due(i)' = IF status = "sent" THEN total ELSE 0
    BY <1>1, <1>2, <1>3 DEF Due, Receivable
  <1>5. Behind(r)' = Behind(r) /\ Behind(r) \in Int
    BY <1>1 DEF Behind, Typed, Held
  <1>6. Booked(i)'
    BY <1>1, <1>3 DEF Booked
  <1>7. (balance' - balance) + (Behind(r)' - Behind(r)) = Due(i)' - Due(i)
    BY <1>1, <1>4, <1>5
  <1> QED
    BY <1>3, <1>6, <1>7, OneInvoice

LEMMA PayBalanced ==
  ASSUME Typed, Typed', Balanced, NEW r \in Req, Receive(r), NEW i \in Invoice,
         NEW a \in Amount, Pay(r, i, a)
  PROVE  Balanced'
  <1> DEFINE left == invoice[i].total - (invoice[i].paid + a)
  <1>1. /\ Receivable(invoice[i].status) /\ a <= invoice[i].due /\ balance' = balance - a
        /\ pc' = pc /\ arg' = arg /\ balance \in Int /\ a \in Nat
        /\ invoice' = [invoice EXCEPT
             ![i].status = IF left <= 0 THEN "paid" ELSE "partially_paid",
             ![i].paid = @ + a, ![i].due = IF left > 0 THEN left ELSE 0]
    BY LifecycleAssumption DEF Pay, Typed
  <1>2. /\ invoice[i].paid \in Nat /\ invoice[i].due \in Nat /\ invoice[i].total \in Nat
        /\ invoice[i].paid + invoice[i].due = invoice[i].total
    BY DEF Typed, Row, Balanced, Booked
  <1>3. /\ invoice'[i].status = IF left <= 0 THEN "paid" ELSE "partially_paid"
        /\ invoice'[i].total = invoice[i].total
        /\ invoice'[i].due = IF left > 0 THEN left ELSE 0
        /\ invoice'[i].paid = invoice[i].paid + a
        /\ \A j \in Invoice \ {i} : invoice'[j] = invoice[j]
    BY <1>1 DEF Typed, Row
  <1>4. left = invoice[i].due - a
    BY <1>1, <1>2
  <1> HIDE DEF left
  <1>5. invoice'[i].due = invoice[i].due - a
    BY <1>1, <1>2, <1>3, <1>4
  <1>6. Due(i) = invoice[i].due /\ Due(i)' = invoice[i].due - a
    <2>1. Due(i) = invoice[i].due
      BY <1>1 DEF Due
    <2>2. CASE left <= 0
      <3>1. invoice'[i].status = "paid" /\ invoice[i].due - a = 0
        BY <1>1, <1>2, <1>3, <1>4, <2>2
      <3> QED
        BY <2>1, <3>1 DEF Due, Receivable
    <2>3. CASE ~(left <= 0)
      <3>1. invoice'[i].status = "partially_paid"
        BY <1>3, <2>3
      <3> QED
        BY <1>5, <2>1, <3>1 DEF Due, Receivable
    <2> QED
      BY <2>2, <2>3
  <1>7. Behind(r)' = Behind(r) /\ Behind(r) \in Int
    BY <1>1 DEF Behind, Typed, Held
  <1>8. Booked(i)'
    BY <1>1, <1>2, <1>3, <1>5 DEF Booked
  <1>9. (balance' - balance) + (Behind(r)' - Behind(r)) = Due(i)' - Due(i)
    BY <1>1, <1>2, <1>6, <1>7
  <1> QED
    BY <1>3, <1>8, <1>9, OneInvoice

\* A request that only reads, and a reviewer's claim, move no money.
LEMMA ReadsBalanced ==
  ASSUME Typed, Typed', Balanced, NEW r \in Req, Receive(r), NEW i \in Invoice,
         \/ \E to \in AskedStatus : ReadForStatus(r, i, to)
         \/ ReadForDelete(r, i) \/ ReadForEdit(r, i) \/ ReadForEmail(r, i)
         \/ \E n \in DOMAIN queue[i], d \in {"approved", "rejected"} : Claim(r, i, n, d)
  PROVE  Balanced'
  <1>1. invoice' = invoice /\ balance' = balance /\ balance \in Int
    BY DEF ReadForStatus, ReadForDelete, ReadForEdit, ReadForEmail, Claim, Typed
  <1>2. /\ pc[r] = "idle"
        /\ \E where \in {"apply", "edit", "mail", "approve", "reject"} : Goto(r, where)
    BY DEF ReadForStatus, ReadForDelete, ReadForEdit, ReadForEmail, Claim, Arrives, At
  <1>3. pc'[r] # "post"
    BY <1>2 DEF Goto, Typed
  <1>4. Behind(r) = 0 /\ Behind(r)' = 0
    BY <1>2, <1>3 DEF Behind
  <1>5. (balance' - balance) + (Behind(r)' - Behind(r)) = 0
    BY <1>1, <1>4
  <1> QED
    BY <1>1, <1>5, NoInvoiceWritten

LEMMA BalancedStep ==
  ASSUME Typed, Typed', WritersFit, Orderly, Orderly', ReadyFit, Balanced, [Next]_vars
  PROVE  Balanced'
  <1>1. ASSUME NEW r \in Req \ dead, pc[r] \in Unguarded PROVE Alone(r)
    BY <1>1 DEF WritersFit
  <1>2. ASSUME NEW r \in Req \ dead, pc[r] \in {"apply", "mail"} PROVE Ready(r)
    BY <1>2 DEF ReadyFit
  <1>3. ASSUME NEW r \in Req, Receive(r) PROVE Balanced'
    BY <1>3, CreateBalanced, PayBalanced, ReadsBalanced DEF Receive
  <1>4. ASSUME NEW r \in Req, Step(r) PROVE Balanced'
    <2>1. CASE ApplyStatus(r)
      BY <1>1, <1>2, <1>4, <2>1, ApplyBalanced DEF ApplyStatus, At, Unguarded
    <2>2. CASE ApplyStatusRetried(r)
      <3>1. retried' = 0 /\ retried' = retried + 1 /\ retried \in Nat
        BY <2>2 DEF ApplyStatusRetried, Orderly, Typed
      <3> QED
        BY <3>1
    <2>3. CASE MarkSent(r)
      BY <1>1, <1>2, <1>4, <2>3, SentBalanced DEF MarkSent, At, Unguarded
    <2>4. ASSUME NEW total \in Amount, SaveEdit(r, total) PROVE Balanced'
      BY <1>1, <1>4, <2>4, EditBalanced DEF SaveEdit, At, Unguarded
    <2> QED
      BY <1>4, <2>1, <2>2, <2>3, <2>4, PostBalanced, ApprovedBalanced, RejectedBalanced DEF Step
  <1>5. CASE UNCHANGED <<invoice, balance, pc, arg>>
    BY <1>5 DEF Balanced, Booked, Owed, Due, Lag, Behind
  <1>6. ASSUME NEW r \in Req, CutOff(r) PROVE Balanced'
    BY <1>5, <1>6 DEF CutOff
  <1> QED
    BY <1>3, <1>4, <1>5, <1>6 DEF Next, vars

\* What a request that reads for the status endpoint, a deletion or a mail holds.
LEMMA ReadsReady ==
  ASSUME Typed, NEW r \in Req, NEW i \in Invoice, pc'[r] \in {"apply", "mail"},
         \/ \E to \in AskedStatus : ReadForStatus(r, i, to)
         \/ ReadForDelete(r, i) \/ ReadForEmail(r, i)
  PROVE  Ready(r)'
  <1>0. /\ arg \in [Req -> Held] /\ pc \in [Req -> {"idle"} \cup Working]
        /\ invoice[i].due \in Int
    BY DEF Typed, Row
  <1>1. ASSUME NEW to, NEW delta, NEW hold, invoice' = invoice,
               arg' = [arg EXCEPT ![r] = Reading(i, to, delta, hold)],
               delta = StatusDelta(invoice[i].status, to, invoice[i].due),
               to = "cancelled" => invoice[i].paid = 0, pc'[r] = "mail" => to = "sent"
        PROVE  Ready(r)'
    <2>1. arg'[r] = Reading(i, to, delta, hold)
      BY <1>0, <1>1
    <2>2. /\ arg'[r].inv = i /\ arg'[r].from = invoice[i].status
          /\ arg'[r].to = to /\ arg'[r].delta = delta
      BY <2>1 DEF Reading
    <2> QED
      BY <1>1, <2>2 DEF Ready, Its
  <1>2. ASSUME NEW to \in AskedStatus, ReadForStatus(r, i, to) PROVE Ready(r)'
    <2>1. invoice' = invoice /\ pc'[r] = "apply" /\ (to = "cancelled" => invoice[i].paid = 0)
      BY <1>0, <1>2 DEF ReadForStatus, Goto
    <2>2. CASE HeldByRules(i, to)
      <3>1. arg' = [arg EXCEPT ![r] = Reading(i, "pending_approval", 0, TRUE)]
        BY <1>2, <2>2 DEF ReadForStatus, Decide, Reading
      <3>2. StatusDelta(invoice[i].status, "pending_approval", invoice[i].due) = 0
        BY <2>2 DEF HeldByRules, StatusDelta, Receivable
      <3> QED
        BY <1>1, <2>1, <3>1, <3>2
    <2>3. CASE ~HeldByRules(i, to)
      BY <1>1, <1>2, <2>1, <2>3 DEF ReadForStatus, Decide, Reading
    <2> QED
      BY <2>2, <2>3
  <1>3. CASE ReadForDelete(r, i)
    <2>1. /\ invoice' = invoice /\ pc'[r] = "apply" /\ invoice[i].paid = 0
          /\ arg' = [arg EXCEPT ![r] = Reading(i, "cancelled",
                       StatusDelta(invoice[i].status, "cancelled", invoice[i].due), FALSE)]
      BY <1>0, <1>3 DEF ReadForDelete, Goto, Decide, Reading
    <2> QED
      BY <1>1, <2>1
  <1>4. CASE ReadForEmail(r, i)
    <2>1. /\ invoice' = invoice /\ pc'[r] = "mail"
          /\ arg' = [arg EXCEPT ![r] = Reading(i, "sent",
                       StatusDelta(invoice[i].status, "sent", invoice[i].due), FALSE)]
      BY <1>0, <1>4 DEF ReadForEmail, Goto, Decide, Reading
    <2> QED
      BY <1>1, <2>1
  <1> QED
    BY <1>2, <1>3, <1>4

\* Only the acting request can be one that will write without asking.
LEMMA ReadyStep ==
  ASSUME Typed, Typed', WritersFit, Orderly, Orderly', ReadyFit, [Next]_vars
  PROVE  ReadyFit'
  <1> SUFFICES ASSUME NEW q \in Req, q \notin dead', pc'[q] \in {"apply", "mail"}
               PROVE  Ready(q)'
    BY DEF ReadyFit
  <1>0. arg \in [Req -> Held] /\ pc \in [Req -> {"idle"} \cup Working]
    BY DEF Typed
  <1>1. CASE UNCHANGED <<invoice, pc, arg>> /\ q \notin dead
    BY <1>1 DEF ReadyFit, Ready, Its
  <1>2. ASSUME NEW r \in Req, Receive(r) PROVE Ready(q)'
    <2> DEFINE Reads == /\ pc[r] = "idle" /\ dead' = dead
                        /\ (pc' = pc \/ \E where : Goto(r, where))
    <2>4. \A i \in Invoice : \A asked, total : CreateInvoice(r, i, asked, total) => Reads
      BY DEF CreateInvoice, At
    <2>5. \A i \in Invoice : \A a : Pay(r, i, a) => Reads
      BY DEF Pay, Arrives, At
    <2>6. \A i \in Invoice : \A to : ReadForStatus(r, i, to) => Reads
      BY DEF ReadForStatus, Arrives, At
    <2>7. \A i \in Invoice : ReadForDelete(r, i) \/ ReadForEdit(r, i) \/ ReadForEmail(r, i)
                               => Reads
      BY DEF ReadForDelete, ReadForEdit, ReadForEmail, Arrives, At
    <2>8. \A i \in Invoice : \A n, d : Claim(r, i, n, d) => Reads
      BY DEF Claim, Arrives, At
    <2> HIDE DEF Reads
    <2>9. Reads
      BY <1>2, <2>4, <2>5, <2>6, <2>7, <2>8 DEF Receive
    <2>1. pc[r] = "idle" /\ dead' = dead /\ (pc' = pc \/ \E where : Goto(r, where))
      BY <2>9 DEF Reads
    <2>2. CASE q = r
      <3>1. \E i \in Invoice : \/ \E to \in AskedStatus : ReadForStatus(r, i, to)
                               \/ ReadForDelete(r, i) \/ ReadForEmail(r, i)
        <4>1. ASSUME NEW i \in Invoice, ReadForEdit(r, i) PROVE FALSE
          BY <1>0, <2>2, <4>1 DEF ReadForEdit, Goto
        <4>2. ASSUME NEW i \in Invoice, NEW n, NEW d, Claim(r, i, n, d) PROVE FALSE
          BY <1>0, <2>2, <4>2 DEF Claim, Goto
        <4>3. ASSUME NEW i \in Invoice, NEW asked, NEW total, CreateInvoice(r, i, asked, total)
              PROVE FALSE
          BY <1>0, <2>1, <2>2, <4>3 DEF CreateInvoice
        <4>4. ASSUME NEW i \in Invoice, NEW a, Pay(r, i, a) PROVE FALSE
          BY <1>0, <2>1, <2>2, <4>4 DEF Pay
        <4> QED
          BY <1>2, <4>1, <4>2, <4>3, <4>4 DEF Receive
      <3> QED
        BY <2>2, <3>1, ReadsReady
    <2>3. CASE q # r
      <3>1. pc[q] \in Unguarded /\ q \notin dead
        BY <1>0, <2>1, <2>3 DEF Goto, Unguarded
      <3>2. ~Overlaps(r)
        BY <1>2 DEF Receive, Orderly
      <3> QED
        BY <2>3, <3>1, <3>2 DEF Overlaps, Unguarded
    <2> QED
      BY <2>2, <2>3
  <1>3. ASSUME NEW r \in Req, Step(r) PROVE Ready(q)'
    <2> DEFINE Ends == /\ pc[r] # "idle" /\ r \notin dead /\ dead' = dead
                       /\ (Goto(r, "idle") \/ Goto(r, "post"))
    <2>4. ApplyStatus(r) \/ ApplyStatusRetried(r) \/ PostDelta(r) \/ RejectInvoice(r) => Ends
      BY DEF ApplyStatus, ApplyStatusRetried, PostDelta, RejectInvoice, Finish, At
    <2>5. \A total : SaveEdit(r, total) => Ends
      BY DEF SaveEdit, Finish, At
    <2>6. MarkSent(r) \/ ApproveInvoice(r) => Ends
      BY DEF MarkSent, ApproveInvoice, Finish, At
    <2> HIDE DEF Ends
    <2>7. Ends
      BY <1>3, <2>4, <2>5, <2>6 DEF Step
    <2>1. /\ pc[r] # "idle" /\ r \notin dead /\ dead' = dead
          /\ \E where \in {"idle", "post"} : Goto(r, where)
      BY <2>7 DEF Ends
    <2>2. q # r /\ pc[q] \in Unguarded
      BY <1>0, <2>1 DEF Goto, Unguarded
    <2>3. Alone(q)
      BY <2>1, <2>2 DEF WritersFit
    <2> QED
      BY <2>1, <2>2, <2>3 DEF Alone
  <1>4. ASSUME NEW r \in Req, CutOff(r) PROVE Ready(q)'
    BY <1>1, <1>4 DEF CutOff
  <1> QED
    BY <1>1, <1>2, <1>3, <1>4 DEF Next, vars

LEMMA InitBalanced == Init => ReadyFit /\ BalancedFit
  <1> SUFFICES ASSUME Init PROVE ReadyFit /\ BalancedFit
    OBVIOUS
  <1>1. ReadyFit
    BY DEF Init, ReadyFit
  <1> DEFINE d == [i \in Invoice |-> Due(i)]
             b == [r \in Req |-> Behind(r)]
  <1>2. /\ \A i \in Invoice : d[i] = 0
        /\ \A r \in Req : b[r] = 0
        /\ d \in [Invoice -> Int] /\ b \in [Req -> Int]
    BY DEF Init, NoInvoice, Due, Behind, Receivable
  <1>3. Owed = SumFunction(d) /\ Lag = SumFunction(b)
    BY DEF Owed, Lag
  <1> HIDE DEF d, b
  <1>4. Owed = 0 /\ Lag = 0
    BY <1>2, <1>3, LifecycleAssumption, TotalNothing
  <1>5. Balanced
    BY <1>4 DEF Init, Balanced, Booked, NoInvoice
  <1> QED
    BY <1>1, <1>5 DEF BalancedFit
-----------------------------------------------------------------------------
(* The types that take more than one variable to tell *)

\* Only invoices that exist are worked on, and their totals are amounts.
Existing ==
  /\ \A i \in Invoice : invoice[i].status # "none" => invoice[i].total \in Amount
  /\ \A r \in Req : pc[r] # "idle" => Its(r).status # "none" /\ arg[r].to # "none"
  /\ passed \in [Invoice -> SUBSET Amount]
Counted == /\ dead \subseteq Req /\ retried \in 0..Conflicts
           /\ waved \subseteq Invoice /\ parked \subseteq Invoice /\ mailed \subseteq Invoice

\* A step of one request that writes one invoice at most, and an existing one stays.
Keeping(r, i) ==
  /\ \A j \in Invoice \ {i} : invoice'[j] = invoice[j] /\ passed'[j] = passed[j]
  /\ invoice[i].status # "none" => invoice'[i].status # "none"
  /\ invoice'[i].status # "none" => invoice'[i].total \in Amount
  /\ passed'[i] \subseteq passed[i] \cup Amount
  /\ \A q \in Req \ {r} : /\ pc'[q] = pc[q]
                          /\ arg'[q].inv = arg[q].inv /\ arg'[q].to = arg[q].to
  /\ pc'[r] # "idle" => invoice'[arg'[r].inv].status # "none" /\ arg'[r].to # "none"

LEMMA KeepingExists ==
  ASSUME Typed, Typed', Existing, NEW r \in Req, NEW i \in Invoice, Keeping(r, i)
  PROVE  Existing'
  <1>1. \A j \in Invoice : invoice[j].status # "none" => invoice'[j].status # "none"
    BY DEF Keeping
  <1>2. \A j \in Invoice : invoice'[j].status # "none" => invoice'[j].total \in Amount
    BY DEF Keeping, Existing
  <1>3. passed' \in [Invoice -> SUBSET Amount]
    <2>1. \A j \in Invoice : passed'[j] \subseteq Amount
      BY DEF Keeping, Existing
    <2>2. passed' \in [Invoice -> SUBSET Nat]
      BY DEF Typed
    <2> QED
      BY <2>1, <2>2
  <1>4. ASSUME NEW q \in Req \ {r}, pc'[q] # "idle"
        PROVE  Its(q)'.status # "none" /\ arg'[q].to # "none"
    <2>1. /\ pc[q] # "idle" /\ arg'[q].inv = arg[q].inv /\ arg'[q].to = arg[q].to
      BY <1>4 DEF Keeping
    <2>2. arg[q].inv \in Invoice /\ Its(q).status # "none" /\ arg[q].to # "none"
      BY <2>1 DEF Existing, Typed
    <2>3. invoice'[arg[q].inv].status # "none"
      BY <1>1, <2>2 DEF Its
    <2> QED
      BY <2>1, <2>2, <2>3 DEF Its
  <1>5. pc'[r] # "idle" => Its(r)'.status # "none" /\ arg'[r].to # "none"
    BY DEF Keeping, Its
  <1> QED
    BY <1>2, <1>3, <1>4, <1>5 DEF Existing

\* A request that reads keeps the invoice it read.
LEMMA ReadKeeps ==
  ASSUME Typed, Existing, NEW r \in Req, NEW i \in Invoice, invoice[i].status # "none",
         invoice' = invoice, \A j \in Invoice \ {i} : passed'[j] = passed[j],
         passed'[i] \subseteq passed[i] \cup {invoice[i].total},
         NEW to, to # "none", NEW delta, NEW hold, NEW where, Goto(r, where),
         arg' = [arg EXCEPT ![r] = Reading(i, to, delta, hold)]
  PROVE  Keeping(r, i)
  <1>1. /\ arg'[r] = Reading(i, to, delta, hold)
        /\ \A q \in Req \ {r} : pc'[q] = pc[q] /\ arg'[q] = arg[q]
    BY DEF Typed, Goto
  <1>2. arg'[r].inv = i /\ arg'[r].to = to
    BY <1>1 DEF Reading
  <1> QED
    BY <1>1, <1>2 DEF Keeping, Existing

LEMMA ReceiveKeeps ==
  ASSUME Typed, Existing, NEW r \in Req, Receive(r)
  PROVE  \E i \in Invoice : Keeping(r, i)
  <1>1. ASSUME NEW i \in Invoice, NEW asked \in {"draft", "sent"}, NEW total \in Amount,
               CreateInvoice(r, i, asked, total)
        PROVE  Keeping(r, i)
    <2>1. /\ pc[r] = "idle" /\ UNCHANGED <<pc, arg, passed>> /\ invoice[i].status = "none"
          /\ invoice'[i].total = total
          /\ \A j \in Invoice \ {i} : invoice'[j] = invoice[j]
      BY <1>1 DEF CreateInvoice, At, Typed
    <2> QED
      BY <2>1 DEF Keeping
  <1>2. ASSUME NEW i \in Invoice, NEW a \in Amount, Pay(r, i, a) PROVE Keeping(r, i)
    <2>1. /\ pc[r] = "idle" /\ UNCHANGED <<pc, arg, passed>> /\ invoice[i].status # "none"
      BY <1>2 DEF Pay, Arrives, At
    <2>2. /\ invoice'[i].total = invoice[i].total
          /\ invoice'[i].status \in {"paid", "partially_paid"}
          /\ \A j \in Invoice \ {i} : invoice'[j] = invoice[j]
      BY <1>2 DEF Pay, Typed, Row
    <2> QED
      BY <2>1, <2>2 DEF Keeping, Existing
  <1>3. ASSUME NEW i \in Invoice, NEW to \in AskedStatus, ReadForStatus(r, i, to)
        PROVE  Keeping(r, i)
    <2>1. to # "none"
      BY LifecycleAssumption DEF EndpointStatus
    <2>2. /\ invoice[i].status # "none" /\ Goto(r, "apply") /\ UNCHANGED <<invoice, passed>>
          /\ \/ arg' = [arg EXCEPT ![r] = Reading(i, "pending_approval", 0, TRUE)]
             \/ arg' = [arg EXCEPT ![r] = Reading(i, to,
                          StatusDelta(invoice[i].status, to, invoice[i].due), FALSE)]
      BY <1>3 DEF ReadForStatus, Decide, Reading, Arrives
    <2> QED
      BY <2>1, <2>2, ReadKeeps
  <1>4. ASSUME NEW i \in Invoice, ReadForDelete(r, i) PROVE Keeping(r, i)
    <2>1. /\ invoice[i].status # "none" /\ Goto(r, "apply") /\ UNCHANGED <<invoice, passed>>
          /\ arg' = [arg EXCEPT ![r] = Reading(i, "cancelled",
                       StatusDelta(invoice[i].status, "cancelled", invoice[i].due), FALSE)]
      BY <1>4 DEF ReadForDelete, Decide, Reading, Arrives
    <2> QED
      BY <2>1, ReadKeeps
  <1>5. ASSUME NEW i \in Invoice, ReadForEdit(r, i) PROVE Keeping(r, i)
    <2>1. /\ invoice[i].status # "none" /\ Goto(r, "edit") /\ UNCHANGED <<invoice, passed>>
          /\ arg' = [arg EXCEPT ![r] = Reading(i, "draft", 0, FALSE)]
      BY <1>5 DEF ReadForEdit, Decide, Reading, Arrives
    <2> QED
      BY <2>1, ReadKeeps
  <1>6. ASSUME NEW i \in Invoice, ReadForEmail(r, i) PROVE Keeping(r, i)
    <2>1. /\ invoice[i].status # "none" /\ Goto(r, "mail") /\ UNCHANGED <<invoice, passed>>
          /\ arg' = [arg EXCEPT ![r] = Reading(i, "sent",
                       StatusDelta(invoice[i].status, "sent", invoice[i].due), FALSE)]
      BY <1>6 DEF ReadForEmail, Decide, Reading, Arrives
    <2> QED
      BY <2>1, ReadKeeps
  <1>7. ASSUME NEW i \in Invoice, NEW n \in DOMAIN queue[i], NEW d \in {"approved", "rejected"},
               Claim(r, i, n, d)
        PROVE  Keeping(r, i)
    <2> DEFINE to == IF d = "approved" THEN "approved" ELSE "draft"
               where == IF d = "approved" THEN "approve" ELSE "reject"
    <2>1. /\ invoice[i].status # "none" /\ Goto(r, where) /\ invoice' = invoice
          /\ arg' = [arg EXCEPT ![r] = Reading(i, to, 0, FALSE)]
      BY <1>7 DEF Claim, Decide, Reading, Arrives
    <2>2. /\ \A j \in Invoice \ {i} : passed'[j] = passed[j]
          /\ passed'[i] \subseteq passed[i] \cup {invoice[i].total}
      BY <1>7 DEF Claim, Typed
    <2>3. to # "none"
      OBVIOUS
    <2> HIDE DEF to, where
    <2> QED
      BY <2>1, <2>2, <2>3, ReadKeeps
  <1> QED
    BY <1>1, <1>2, <1>3, <1>4, <1>5, <1>6, <1>7 DEF Receive

\* A step that writes a status to an existing invoice and ends the request, or lets it post.
WritesStatus(i) ==
  invoice' = invoice \/ \E s : s # "none" /\ invoice' = [invoice EXCEPT ![i].status = s]
LetsThrough(i) ==
  /\ \A j \in Invoice \ {i} : passed'[j] = passed[j]
  /\ passed'[i] \subseteq passed[i] \cup {invoice[i].total}
Stops(r) == pc' = [pc EXCEPT ![r] = "idle"] /\ \A q \in Req \ {r} : arg'[q] = arg[q]
GoesToPost(r) ==
  /\ pc' = [pc EXCEPT ![r] = "post"]
  /\ \A q \in Req : arg'[q].inv = arg[q].inv /\ arg'[q].to = arg[q].to

LEMMA StatusKeeps ==
  ASSUME Typed, Existing, NEW r \in Req, pc[r] # "idle", NEW i \in Invoice, i = arg[r].inv,
         WritesStatus(i), LetsThrough(i), Stops(r) \/ GoesToPost(r)
  PROVE  Keeping(r, i)
  <1>1. invoice[i].status # "none" /\ invoice[i].total \in Amount /\ arg[r].to # "none"
    BY DEF Existing, Its
  <1>2. /\ \A j \in Invoice \ {i} : invoice'[j] = invoice[j]
        /\ invoice'[i].status # "none" /\ invoice'[i].total = invoice[i].total
    <2>1. ASSUME NEW s, s # "none", invoice' = [invoice EXCEPT ![i].status = s]
          PROVE  /\ \A j \in Invoice \ {i} : invoice'[j] = invoice[j]
                 /\ invoice'[i].status # "none" /\ invoice'[i].total = invoice[i].total
      BY <2>1, StatusRow
    <2> QED
      BY <1>1, <2>1 DEF WritesStatus
  <1>3. \A q \in Req \ {r} : /\ pc'[q] = pc[q]
                             /\ arg'[q].inv = arg[q].inv /\ arg'[q].to = arg[q].to
    BY DEF Typed, Stops, GoesToPost
  <1>4. pc'[r] # "idle" => arg'[r].inv = i /\ arg'[r].to # "none"
    BY <1>1 DEF Typed, Stops, GoesToPost
  <1> QED
    BY <1>1, <1>2, <1>3, <1>4 DEF Keeping, LetsThrough

LEMMA StepKeeps ==
  ASSUME Typed, Existing, NEW r \in Req, Step(r)
  PROVE  \E i \in Invoice : Keeping(r, i)
  <1>0. pc[r] # "idle"
    BY DEF Step, ApplyStatus, ApplyStatusRetried, SaveEdit, MarkSent, PostDelta,
           ApproveInvoice, RejectInvoice, At
  <1>1. PICK i \in Invoice : i = arg[r].inv
    BY <1>0, WorkingFields
  <1>2. arg[r].to # "none" /\ invoice[i].status # "none" /\ invoice[i].total \in Amount
    BY <1>0, <1>1 DEF Existing, Its
  <1>3. Finish(r) => Stops(r)
    BY DEF Finish, Goto, Typed, Stops
  <1>4. StatusEffects(r) => LetsThrough(i)
    BY <1>1 DEF StatusEffects, Typed, LetsThrough
  <1>12. (passed' = passed => LetsThrough(i)) /\ (invoice' = invoice => WritesStatus(i))
    BY DEF LetsThrough, WritesStatus
  <1>13. ASSUME NEW s, s # "none", invoice' = [invoice EXCEPT ![i].status = s]
         PROVE  WritesStatus(i)
    BY <1>13 DEF WritesStatus
  <1>5. ASSUME ApplyStatus(r) PROVE Keeping(r, i)
    <2>1. WritesStatus(i)
      <3>1. CASE arg[r].to = arg[r].from
        <4>1. invoice' = [invoice EXCEPT ![i].status = invoice[i].status]
          BY <1>1, <1>5, <3>1 DEF ApplyStatus, Typed
        <4> QED
          BY <1>2, <1>13, <4>1
      <3>2. CASE arg[r].to # arg[r].from
        <4>1. invoice' = [invoice EXCEPT ![i].status = arg[r].to]
          BY <1>1, <1>5, <3>2 DEF ApplyStatus, Typed
        <4> QED
          BY <1>2, <1>13, <4>1
      <3> QED
        BY <3>1, <3>2
    <2>2. Finish(r) /\ StatusEffects(r)
      BY <1>5 DEF ApplyStatus
    <2> QED
      BY <1>0, <1>1, <1>3, <1>4, <2>1, <2>2, StatusKeeps
  <1>6. ASSUME ApplyStatusRetried(r) PROVE Keeping(r, i)
    <2>1. Finish(r) /\ StatusEffects(r) /\ invoice' = invoice
      BY <1>6 DEF ApplyStatusRetried
    <2> QED
      BY <1>0, <1>1, <1>3, <1>4, <1>12, <2>1, StatusKeeps
  <1>7. ASSUME MarkSent(r) PROVE Keeping(r, i)
    <2>1. /\ invoice' = [invoice EXCEPT ![i].status = "sent"] /\ passed' = passed
          /\ (Finish(r) \/ GoesToPost(r))
      BY <1>1, <1>7 DEF MarkSent, Goto, GoesToPost
    <2> QED
      BY <1>0, <1>1, <1>3, <1>12, <1>13, <2>1, StatusKeeps
  <1>8. ASSUME PostDelta(r) PROVE Keeping(r, i)
    <2>1. Finish(r) /\ invoice' = invoice /\ passed' = passed
      BY <1>8 DEF PostDelta
    <2> QED
      BY <1>0, <1>1, <1>3, <1>12, <2>1, StatusKeeps
  <1>9. ASSUME ApproveInvoice(r) PROVE Keeping(r, i)
    <2>1. CASE invoice[i].status = "pending_approval"
      <3>1. /\ invoice' = [invoice EXCEPT ![i].status = "approved"] /\ passed' = passed
            /\ arg' = [arg EXCEPT ![r].delta = invoice[i].due]
            /\ pc' = [pc EXCEPT ![r] = "post"]
        BY <1>1, <1>9, <2>1 DEF ApproveInvoice, Goto
      <3>2. GoesToPost(r)
        BY <3>1 DEF Typed, Held, GoesToPost
      <3> QED
        BY <1>0, <1>1, <1>12, <1>13, <3>1, <3>2, StatusKeeps
    <2>2. CASE invoice[i].status # "pending_approval"
      <3>1. Finish(r) /\ invoice' = invoice /\ passed' = passed
        BY <1>1, <1>9, <2>2 DEF ApproveInvoice
      <3> QED
        BY <1>0, <1>1, <1>3, <1>12, <3>1, StatusKeeps
    <2> QED
      BY <2>1, <2>2
  <1>10. ASSUME RejectInvoice(r) PROVE Keeping(r, i)
    <2>1. WritesStatus(i)
      <3>1. CASE invoice[i].status = "pending_approval"
        <4>1. invoice' = [invoice EXCEPT ![i].status = "draft"]
          BY <1>1, <1>10, <3>1 DEF RejectInvoice
        <4> QED
          BY <1>13, <4>1
      <3>2. CASE invoice[i].status # "pending_approval"
        <4>1. invoice' = [invoice EXCEPT ![i].status = invoice[i].status]
          BY <1>1, <1>10, <3>2 DEF RejectInvoice, Typed
        <4> QED
          BY <1>2, <1>13, <4>1
      <3> QED
        BY <3>1, <3>2
    <2>2. Finish(r) /\ passed' = passed
      BY <1>10 DEF RejectInvoice
    <2> QED
      BY <1>0, <1>1, <1>3, <1>12, <2>1, <2>2, StatusKeeps
  <1>11. ASSUME NEW total \in Amount, SaveEdit(r, total) PROVE Keeping(r, i)
    <2>1. CASE arg[r].stale
      <3>1. Finish(r) /\ invoice' = invoice /\ passed' = passed
        BY <1>11, <2>1 DEF SaveEdit
      <3> QED
        BY <1>0, <1>1, <1>3, <1>12, <3>1, StatusKeeps
    <2>2. CASE ~arg[r].stale
      <3>1. /\ invoice' = [invoice EXCEPT ![i].total = total, ![i].due = total]
            /\ passed' = passed /\ pc' = [pc EXCEPT ![r] = "idle"]
            /\ \A q \in Req \ {r} : \E b : arg'[q] = [arg[q] EXCEPT !.stale = b]
        BY <1>1, <1>11, <2>2, Zenon DEF SaveEdit, Goto
      <3>2. \A q \in Req \ {r} : arg'[q].inv = arg[q].inv /\ arg'[q].to = arg[q].to
        <4> SUFFICES ASSUME NEW q \in Req \ {r}
                     PROVE  arg'[q].inv = arg[q].inv /\ arg'[q].to = arg[q].to
          OBVIOUS
        <4>1. arg[q] \in Held
          BY DEF Typed
        <4> QED
          BY <3>1, <4>1 DEF Held
      <3>3. /\ invoice'[i].status = invoice[i].status /\ invoice'[i].total = total
            /\ \A j \in Invoice \ {i} : invoice'[j] = invoice[j]
        BY <3>1 DEF Typed, Row
      <3>4. pc'[r] = "idle" /\ \A q \in Req \ {r} : pc'[q] = pc[q]
        BY <3>1 DEF Typed
      <3> QED
        BY <1>2, <3>1, <3>2, <3>3, <3>4 DEF Keeping
    <2> QED
      BY <2>1, <2>2
  <1> QED
    BY <1>5, <1>6, <1>7, <1>8, <1>9, <1>10, <1>11 DEF Step

LEMMA ExistingStep ==
  ASSUME Typed, Typed', Existing, [Next]_vars
  PROVE  Existing'
  <1>1. CASE UNCHANGED <<invoice, pc, arg, passed>>
    BY <1>1 DEF Existing, Its
  <1>2. ASSUME NEW r \in Req, Receive(r) PROVE Existing'
    BY <1>2, ReceiveKeeps, KeepingExists
  <1>3. ASSUME NEW r \in Req, Step(r) PROVE Existing'
    BY <1>3, StepKeeps, KeepingExists
  <1>4. ASSUME NEW r \in Req, CutOff(r) PROVE Existing'
    BY <1>1, <1>4 DEF CutOff
  <1> QED
    BY <1>1, <1>2, <1>3, <1>4 DEF Next, vars

LEMMA CountedStep ==
  ASSUME Typed, Counted, [Next]_vars
  PROVE  Counted'
  <1>1. CASE UNCHANGED <<dead, retried, waved, parked, mailed>>
    BY <1>1 DEF Counted
  <1>2. ASSUME NEW r \in Req, Receive(r) PROVE Counted'
    <2>1. /\ \A i \in Invoice : \A asked, total :
               CreateInvoice(r, i, asked, total)
                 => UNCHANGED <<dead, retried, waved, parked, mailed>>
          /\ \A i \in Invoice : \A to :
               ReadForStatus(r, i, to) => UNCHANGED <<dead, retried, waved, parked, mailed>>
      BY DEF CreateInvoice, ReadForStatus
    <2>2. \A i \in Invoice : ReadForDelete(r, i) \/ ReadForEdit(r, i) \/ ReadForEmail(r, i)
                               => UNCHANGED <<dead, retried, waved, parked, mailed>>
      BY DEF ReadForDelete, ReadForEdit, ReadForEmail
    <2>3. /\ \A i \in Invoice : \A n, d :
               Claim(r, i, n, d) => UNCHANGED <<dead, retried, waved, parked, mailed>>
          /\ \A i \in Invoice : \A a :
               Pay(r, i, a) => UNCHANGED <<dead, retried, waved, parked, mailed>>
      BY DEF Claim, Pay
    <2> QED
      BY <1>1, <1>2, <2>1, <2>2, <2>3 DEF Receive
  <1>3. ASSUME NEW r \in Req, Step(r) PROVE Counted'
    <2>1. ASSUME ApplyStatus(r) \/ ApplyStatusRetried(r) PROVE Counted'
      <3>1. StatusEffects(r) /\ dead' = dead /\ mailed' = mailed
            /\ (retried' = retried \/ (retried < Conflicts /\ retried' = retried + 1))
        BY <2>1 DEF ApplyStatus, ApplyStatusRetried
      <3>2. arg[r].inv \in Invoice
        BY <2>1, WorkingFields DEF ApplyStatus, ApplyStatusRetried, At
      <3>3. waved' \subseteq Invoice /\ parked' \subseteq Invoice
        BY <3>1, <3>2 DEF StatusEffects, Counted
      <3>4. retried' \in 0..Conflicts
        BY <3>1, LifecycleAssumption DEF Counted
      <3> QED
        BY <3>1, <3>3, <3>4 DEF Counted
    <2>2. ASSUME MarkSent(r) PROVE Counted'
      <3>1. arg[r].inv \in Invoice
        BY <2>2, WorkingFields DEF MarkSent, At
      <3> QED
        BY <2>2, <3>1 DEF MarkSent, Counted
    <2>3. PostDelta(r) \/ ApproveInvoice(r) \/ RejectInvoice(r)
            => UNCHANGED <<dead, retried, waved, parked, mailed>>
      BY DEF PostDelta, ApproveInvoice, RejectInvoice
    <2>4. \A total : SaveEdit(r, total) => UNCHANGED <<dead, retried, waved, parked, mailed>>
      BY DEF SaveEdit
    <2> QED
      BY <1>1, <1>3, <2>1, <2>2, <2>3, <2>4 DEF Step
  <1>4. ASSUME NEW r \in Req, CutOff(r) PROVE Counted'
    BY <1>4 DEF CutOff, Counted
  <1> QED
    BY <1>1, <1>2, <1>3, <1>4 DEF Next, vars

LEMMA TypesTold ==
  ASSUME Typed, Existing, Counted
  PROVE  TypeOK
  <1>1. NoArg.inv \in Invoice
    BY LifecycleAssumption DEF NoArg
  <1>2. arg \in [Req -> [inv : Invoice, from : Status, to : Status, delta : Int,
                         hold : BOOLEAN, stale : BOOLEAN]]
    BY <1>1 DEF Typed, Held
  <1>3. invoice \in [Invoice -> [status : Status, total : Nat, paid : Nat, due : Nat]]
    BY DEF Typed, Row
  <1>4. \A i \in Invoice : queue[i] \in Seq({"pending", "approved", "rejected"})
    BY DEF Typed, Decision
  <1>5. mixed \in BOOLEAN /\ balance \in Int /\ pc \in [Req -> {"idle"} \cup Working]
    BY DEF Typed
  <1>6. passed \in [Invoice -> SUBSET Amount]
    BY DEF Existing
  <1> QED
    BY <1>2, <1>3, <1>4, <1>5, <1>6 DEF TypeOK, Counted
-----------------------------------------------------------------------------
\* The customer's balance is what the receivable invoices say is due, but for the changes
\* whose balance write is still to come, for every number of invoices and clients, wherever
\* any of them is cut off, as long as no unguarded handler runs beside another request and
\* none is retried: createInvoice, applyStatusChange, sendEmail, approveItem and the payments
\* between them lose and double nothing.  And every variable stays within its type.
THEOREM LedgerAlwaysSound == Spec => []LedgerIsSound
  <1> DEFINE LInv == /\ Typed /\ WritersFit /\ ReadyFit /\ BalancedFit
                     /\ Existing /\ Counted
  <1>1. Init => LInv
    <2> SUFFICES ASSUME Init PROVE LInv
      OBVIOUS
    <2>1. Existing
      BY DEF Init, Existing, NoInvoice
    <2>2. Counted
      BY LifecycleAssumption DEF Init, Counted
    <2> QED
      BY <2>1, <2>2, TypedInit, InitBalanced
  <1>2. LInv /\ [Next]_vars => LInv'
    <2> SUFFICES ASSUME Typed, WritersFit, ReadyFit, BalancedFit, Existing, Counted, [Next]_vars
                 PROVE  LInv'
      OBVIOUS
    <2>1. Typed' /\ Existing' /\ Counted'
      BY TypeStep, ExistingStep, CountedStep
    <2>2. CASE Orderly'
      <3>1. Orderly /\ Balanced
        BY <2>2, StaysOrderly DEF BalancedFit
      <3>2. ReadyFit' /\ Balanced'
        BY <2>1, <2>2, <3>1, ReadyStep, BalancedStep
      <3>3. WritersFit'
        <4>1. CASE Next
          BY <2>1, <2>2, <3>1, <4>1, NextMoves, WritersStep
        <4>2. CASE UNCHANGED vars
          BY <4>2 DEF vars, WritersFit, Orderly, Alone, Its, MayApply
        <4> QED
          BY <4>1, <4>2
      <3> QED
        BY <2>1, <3>2, <3>3 DEF BalancedFit
    <2>3. CASE ~Orderly'
      BY <2>1, <2>3 DEF WritersFit, ReadyFit, BalancedFit
    <2> QED
      BY <2>2, <2>3
  <1>3. LInv => LedgerIsSound
    <2>1. BalancedFit => BalanceInStep
      BY DEF BalancedFit, Balanced, BalanceInStep
    <2> QED
      BY <2>1, TypesTold DEF LedgerIsSound
  <1> QED
    BY <1>1, <1>2, <1>3, PTL DEF Spec
=============================================================================
