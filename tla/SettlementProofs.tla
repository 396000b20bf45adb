--------------------------- MODULE SettlementProofs ---------------------------
(***************************************************************************)
(* Proofs about Settlement and CreditNotes, for every number of invoices   *)
(* and requests, with or without crashes.  The first part is about the     *)
(* payment handlers and holds whether or not users wait with their         *)
(* refunds; what follows RInv is about users who do: that no money is made *)
(* or lost, and that Settlement implements Receivables.  The last part is  *)
(* about credit notes, whatever the payment handlers do next to them.      *)
(***************************************************************************)
EXTENDS CreditNotes, SumLemmas, TLAPS

\* Where a request is, what it asks and what it pays for fit together.
RequestsFit ==
  \A r \in Req :
    /\ pc[r] \in {"create", "settle", "reduce", "fail"} => arg[r].op = "record"
    /\ pc[r] = "commit" => arg[r].op = "checkout"
    /\ pc[r] = "claim" => arg[r].op = "refund" /\ arg[r].inv = arg[r].of[2]
    /\ pc[r] \in {"create", "settle", "reduce", "fail", "commit", "claim"} => arg[r].amount > 0
    /\ arg[r].op = "record" => arg[r].amount > 0
    /\ arg[r].op \in {"record", "checkout"} => arg[r].of = <<r, arg[r].inv>>
    /\ pc[r] \in {"settle", "fail", "reduce"} => arg[r].asked = "completed"

\* A payment between its two writes exists, and only a refund touches it.
InFlightExists ==
  \A r \in Req : pc[r] \in {"settle", "fail"} =>
    payment[arg[r].of].status \in {"completed", "refunded"}

\* A payment is in its own invoice's history only, and only once the request
\* that made it has settled it.
HistoryIsSettled ==
  \A i \in Invoice : \A p \in invoice[i].history :
    /\ p[2] = i
    /\ payment[p].status \in {"completed", "refunded"}
    /\ pc[p[1]] \in {"reduce", "ok"}
    /\ arg[p[1]].op \in {"record", "checkout", "account"}

\* Conversely, what a request has settled is in the history.
SettledInHistory ==
  \A r \in Req :
    /\ arg[r].op \in {"record", "checkout"} /\ arg[r].asked = "completed"
    /\ pc[r] \in {"reduce", "ok"}
    => arg[r].of \in invoice[arg[r].inv].history

IInv ==
  /\ TypeOK
  /\ RefundWithinPayment
  /\ OneChargePerKey
  /\ RequestsFit
  /\ InFlightExists
  /\ HistoryIsSettled
  /\ SettledInHistory

-----------------------------------------------------------------------------
(* Rows of the collections *)

Closes(i, row) ==
  /\ row.paid + row.due = Total[i]
  /\ row.status = "paid" <=> row.due = 0
  /\ row.status \in {"paid", "partially_paid"} <=> row.paid > 0

\* What stays of BooksClose where credit notes take from what is due: nothing is overpaid, and
\* the status tells what is paid.
WithinTotal ==
  \A i \in Invoice :
    /\ invoice[i].paid + invoice[i].due <= Total[i]
    /\ invoice[i].status = "paid" <=> invoice[i].due = 0 /\ invoice[i].paid > 0
    /\ invoice[i].status \in {"paid", "partially_paid"} <=> invoice[i].paid > 0

\* What is paid on in this step asks for all of its total.
Whole(i) == invoice[i].paid + invoice[i].due = Total[i]
PaysWhole == \A i \in Invoice : invoice'[i].paid > invoice[i].paid => Whole(i)

Within(row) ==
  /\ row.refunded <= row.amount
  /\ row.status = "completed" => row.refunded < row.amount
  /\ row.status = "refunded" => row.refunded = row.amount

LEMMA ClosedIsWhole ==
  ASSUME TypeOK, BooksClose
  PROVE  WithinTotal /\ PaysWhole
  <1>1. PaysWhole
    BY DEF BooksClose, PaysWhole, Whole
  <1>2. ASSUME NEW i \in Invoice
        PROVE  /\ invoice[i].paid + invoice[i].due <= Total[i]
               /\ invoice[i].status = "paid" <=> invoice[i].due = 0 /\ invoice[i].paid > 0
    <2>1. /\ invoice[i].paid \in Nat /\ invoice[i].due \in Nat /\ Total[i] \in Nat \ {0}
          /\ invoice[i].paid + invoice[i].due = Total[i]
          /\ invoice[i].status = "paid" <=> invoice[i].due = 0
      BY SettlementAssumption DEF TypeOK, InvoiceRow, BooksClose
    <2> QED
      BY <2>1
  <1> QED
    BY <1>1, <1>2 DEF WithinTotal, BooksClose

LEMMA ClosedIsWithinNext ==
  ASSUME TypeOK', BooksClose'
  PROVE  WithinTotal'
  <1>1. invoice' \in [Invoice -> InvoiceRow]
    BY DEF TypeOK
  <1>2. ASSUME NEW i \in Invoice
        PROVE  /\ invoice'[i].paid + invoice'[i].due <= Total[i]
               /\ invoice'[i].status = "paid" <=> invoice'[i].due = 0 /\ invoice'[i].paid > 0
    <2>1. /\ invoice'[i].paid \in Nat /\ invoice'[i].due \in Nat /\ Total[i] \in Nat \ {0}
          /\ invoice'[i].paid + invoice'[i].due = Total[i]
          /\ invoice'[i].status = "paid" <=> invoice'[i].due = 0
      BY <1>1, SettlementAssumption DEF InvoiceRow, BooksClose
    <2> QED
      BY <2>1
  <1> QED
    BY <1>2 DEF WithinTotal, BooksClose

LEMMA SettledTyped ==
  ASSUME TypeOK, NEW i \in Invoice, NEW a \in Nat, NEW p \in PaymentId
  PROVE  Settled(i, a, p) \in InvoiceRow
  <1>1. invoice[i] \in InvoiceRow /\ Total[i] \in Nat
    BY SettlementAssumption DEF TypeOK
  <1> QED
    BY <1>1 DEF Settled, InvoiceRow, InvoiceStatus, Payable

LEMMA ReopenedTyped ==
  ASSUME TypeOK, NEW i \in Invoice, NEW a \in Nat
  PROVE  Reopened(i, a) \in InvoiceRow
  <1>1. invoice[i] \in InvoiceRow /\ Total[i] \in Nat
    BY SettlementAssumption DEF TypeOK
  <1> QED
    BY <1>1 DEF Reopened, InvoiceRow, InvoiceStatus, Payable

\* A payment that the conditional update accepts leaves the books closed.
LEMMA SettledCloses ==
  ASSUME TypeOK, BooksClose, NEW i \in Invoice, NEW a \in Nat, NEW p \in PaymentId,
         a > 0, Settleable(i, a)
  PROVE  Settled(i, a, p) \in InvoiceRow /\ Closes(i, Settled(i, a, p))
  <1>1. invoice[i] \in InvoiceRow /\ Total[i] \in Nat
    BY SettlementAssumption DEF TypeOK
  <1>2. invoice[i].paid + invoice[i].due = Total[i] /\ a <= invoice[i].due
    BY DEF BooksClose, Settleable
  <1>3. Settled(i, a, p) =
          [status  |-> IF invoice[i].due = a THEN "paid" ELSE "partially_paid",
           paid    |-> invoice[i].paid + a,
           due     |-> invoice[i].due - a,
           history |-> invoice[i].history \cup {p}]
    <2>1. /\ invoice[i].paid \in Nat /\ invoice[i].due \in Nat
          /\ Total[i] - (invoice[i].paid + a) = invoice[i].due - a
      BY <1>1, <1>2 DEF InvoiceRow
    <2>2. /\ Total[i] - (invoice[i].paid + a) <= 0 <=> invoice[i].due = a
          /\ (IF Total[i] - (invoice[i].paid + a) > 0
              THEN Total[i] - (invoice[i].paid + a) ELSE 0) = invoice[i].due - a
      BY <1>2, <2>1
    <2> QED
      BY <2>2 DEF Settled
  <1>4. Settled(i, a, p) \in InvoiceRow
    BY <1>1, <1>2, <1>3 DEF InvoiceRow, InvoiceStatus, Payable
  <1>5. Closes(i, Settled(i, a, p))
    BY <1>1, <1>2, <1>3 DEF Closes, InvoiceRow
  <1> QED
    BY <1>4, <1>5

LEMMA ReopenedCloses ==
  ASSUME TypeOK, BooksClose, NEW i \in Invoice, NEW a \in Nat, a > 0
  PROVE  Reopened(i, a) \in InvoiceRow /\ Closes(i, Reopened(i, a))
  <1>1. invoice[i] \in InvoiceRow /\ Total[i] \in Nat \ {0}
    BY SettlementAssumption DEF TypeOK
  <1>2. invoice[i].paid + invoice[i].due = Total[i]
    BY DEF BooksClose
  <1> QED
    BY <1>1, <1>2 DEF Reopened, Closes, InvoiceRow, InvoiceStatus, Payable

LEMMA GiveBackWithin ==
  ASSUME TypeOK, NEW p \in PaymentId, NEW a \in Nat,
         payment[p].refunded + a <= payment[p].amount
  PROVE  GiveBack(p, a) \in PaymentRow /\ Within(GiveBack(p, a))
  <1>1. payment[p] \in PaymentRow
    BY DEF TypeOK
  <1> QED
    BY <1>1 DEF GiveBack, Within, PaymentRow, PaymentStatus

LEMMA NewPaymentWithin ==
  ASSUME TypeOK, NEW r \in Req, arg[r].amount > 0, NEW s \in {"completed", "pending"}
  PROVE  NewPayment(r, s) \in PaymentRow /\ Within(NewPayment(r, s))
  <1>1. arg[r] \in Ask
    BY DEF TypeOK
  <1> QED
    BY <1>1 DEF NewPayment, Within, PaymentRow, PaymentStatus, Ask

\* What a request asks about exists.
LEMMA AskType ==
  ASSUME TypeOK, NEW r \in Req
  PROVE  /\ arg[r].of \in PaymentId /\ arg[r].inv \in Invoice
         /\ arg[r].amount \in Nat /\ arg[r].key \in Key \cup {NoKey}
         /\ arg[r].asked \in {"completed", "pending"}
  BY DEF TypeOK, Ask

\* What an account payment does when the balance allows it.
Spread(r, a, split) ==
  /\ \A i \in Invoice : split[i] > 0 => Settleable(i, split[i])
  /\ payment' = [p \in PaymentId |->
       IF p[1] = r /\ split[p[2]] > 0
       THEN [status |-> "completed", amount |-> split[p[2]], refunded |-> 0, key |-> NoKey]
       ELSE payment[p]]
  /\ invoice' = [i \in Invoice |->
       IF split[i] > 0 THEN Settled(i, split[i], <<r, i>>) ELSE invoice[i]]
  /\ balance' = balance - a
  /\ Goto(r, "ok")

LEMMA AccountCases ==
  ASSUME TypeOK, NEW r \in Req, NEW a \in Amount, AccountPayment(r, a)
  PROVE  \/ Goto(r, "rejected") /\ UNCHANGED <<invoice, payment, balance>>
         \/ \E split \in [Invoice -> 0..a] : Spread(r, a, split)
  <1>1. CASE a > balance
    BY <1>1 DEF AccountPayment
  <1>2. CASE ~(a > balance)
    <2>1. PICK split \in [Invoice -> 0..a] :
            /\ OldestFirst(split, a)
            /\ payment' = [p \in PaymentId |->
                 IF p[1] = r /\ split[p[2]] > 0
                 THEN [status |-> "completed", amount |-> split[p[2]],
                       refunded |-> 0, key |-> NoKey]
                 ELSE payment[p]]
            /\ invoice' = [i \in Invoice |->
                 IF split[i] > 0 THEN Settled(i, split[i], <<r, i>>) ELSE invoice[i]]
            /\ balance' = balance - a
            /\ Goto(r, "ok")
      BY <1>2 DEF AccountPayment
    <2>2. ASSUME NEW i \in Invoice, split[i] > 0 PROVE Settleable(i, split[i])
      <3>1. split[i] \in Nat /\ invoice[i] \in InvoiceRow
        BY <2>1, SettlementAssumption DEF TypeOK
      <3>2. split[i] <= IF Open(i) THEN invoice[i].due ELSE 0
        BY <2>1 DEF OldestFirst
      <3> QED
        BY <2>2, <3>1, <3>2 DEF Settleable, Open, InvoiceRow
    <2> QED
      BY <2>1, <2>2 DEF Spread
  <1> QED
    BY <1>1, <1>2
-----------------------------------------------------------------------------
(* The inductive invariant *)

LEMMA InitIInv == Init => IInv
  <1> SUFFICES ASSUME Init PROVE IInv
    OBVIOUS
  <1> USE SettlementAssumption
  <1>1. PICK status \in [Invoice -> FirstStatus] :
          invoice = [i \in Invoice |->
            [status |-> status[i], paid |-> 0, due |-> Total[i], history |-> {}]]
    BY DEF Init
  <1>2. TypeOK
    <2>1. invoice \in [Invoice -> InvoiceRow]
      BY <1>1 DEF InvoiceRow
    <2>2. payment \in [PaymentId -> PaymentRow]
      BY DEF Init, NoPayment, PaymentRow, PaymentStatus
    <2>3. arg \in [Req -> Ask]
      BY DEF Init, NoArg, Asks, Ask, PaymentId, Invoice
    <2> QED
      BY <2>1, <2>2, <2>3 DEF Init, TypeOK, Where
  <1>4. RefundWithinPayment /\ OneChargePerKey
    BY DEF Init, NoPayment, RefundWithinPayment, OneChargePerKey
  <1>5. RequestsFit /\ InFlightExists /\ SettledInHistory
    BY DEF Init, NoArg, Asks, RequestsFit, InFlightExists, SettledInHistory
  <1>6. HistoryIsSettled
    BY <1>1 DEF HistoryIsSettled
  <1> QED
    BY <1>2, <1>4, <1>5, <1>6 DEF IInv

LEMMA InitCloses == Init => BooksClose
  BY SettlementAssumption DEF Init, BooksClose

LEMMA TypeStep == IInv /\ [Next]_vars => TypeOK'
  <1> SUFFICES ASSUME IInv, [Next]_vars PROVE TypeOK'
    OBVIOUS
  <1> USE SettlementAssumption DEF IInv, TypeOK
  <1>1. ASSUME NEW r \in Req, NEW i \in Invoice, NEW a \in Amount,
               NEW k \in Key \cup {NoKey}, NEW s \in {"completed", "pending"},
               ReceiveRecord(r, i, a, k, s)
        PROVE  TypeOK'
    <2>1. arg' \in [Req -> Ask]
      BY <1>1 DEF ReceiveRecord, Asks, Ask, PaymentId
    <2>2. pc' \in [Req -> Where]
      BY <1>1 DEF ReceiveRecord, Goto, Where, Working, Answered
    <2> QED
      BY <1>1, <2>1, <2>2 DEF ReceiveRecord
  <1>2. ASSUME NEW r \in Req, NEW i \in Invoice, NEW a \in Amount \cup {0},
               NEW k \in Key \cup {NoKey}, ReceiveCheckout(r, i, a, k)
        PROVE  TypeOK'
    <2>1. arg' \in [Req -> Ask]
      BY <1>2 DEF ReceiveCheckout, Asks, Ask, PaymentId
    <2>2. pc' \in [Req -> Where]
      BY <1>2 DEF ReceiveCheckout, Goto, Where, Working, Answered
    <2> QED
      BY <1>2, <2>1, <2>2 DEF ReceiveCheckout
  <1>3. ASSUME NEW r \in Req, NEW p \in PaymentId, NEW a \in Amount \cup {0},
               ReadForRefund(r, p, a)
        PROVE  TypeOK'
    <2>1. payment[p] \in PaymentRow
      OBVIOUS
    <2>2. Refundable(p) \in Nat
      BY <2>1 DEF Refundable, RefundWithinPayment, PaymentRow
    <2>3. arg' \in [Req -> Ask]
      BY <1>3, <2>2 DEF ReadForRefund, Asks, Ask, PaymentId
    <2>4. pc' \in [Req -> Where]
      BY <1>3 DEF ReadForRefund, Goto, Where, Working, Answered
    <2> QED
      BY <1>3, <2>3, <2>4 DEF ReadForRefund
  <1>4. ASSUME NEW r \in Req, NEW a \in Amount, AccountPayment(r, a)
        PROVE  TypeOK'
    <2>1. arg' \in [Req -> Ask] /\ dead' \subseteq Req
      <3>1. 1 \in Invoice
        BY DEF Invoice
      <3>2. Asks("account", 1, a, NoKey, "completed", <<r, 1>>) \in Ask
        BY <3>1 DEF Asks, Ask, PaymentId
      <3>3. /\ arg' = [arg EXCEPT ![r] = Asks("account", 1, a, NoKey, "completed", <<r, 1>>)]
            /\ dead' = dead
        BY <1>4 DEF AccountPayment
      <3> QED
        BY <3>2, <3>3
    <2>2. CASE Goto(r, "rejected") /\ UNCHANGED <<invoice, payment, balance>>
      BY <2>1, <2>2 DEF Goto, Where, Answered
    <2>3. ASSUME NEW split \in [Invoice -> 0..a], Spread(r, a, split) PROVE TypeOK'
      <3>1. invoice' \in [Invoice -> InvoiceRow]
        BY <2>3, SettledTyped DEF Spread, PaymentId
      <3>2. payment' \in [PaymentId -> PaymentRow]
        BY <2>3 DEF Spread, PaymentId, PaymentRow, PaymentStatus
      <3> QED
        BY <2>1, <2>3, <3>1, <3>2 DEF Spread, Goto, Where, Answered
    <2> QED
      BY <1>4, <2>2, <2>3, AccountCases
  <1>5. ASSUME NEW r \in Req, ReadForRecord(r) PROVE TypeOK'
    BY <1>5 DEF ReadForRecord, Goto, Where, Working, Answered
  <1>6. ASSUME NEW r \in Req, CreatePayment(r) PROVE TypeOK'
    <2>1. NewPayment(r, arg[r].asked) \in PaymentRow
      BY <1>6, NewPaymentWithin, AskType DEF CreatePayment, At, RequestsFit
    <2>2. pc' \in [Req -> Where]
      BY <1>6 DEF CreatePayment, Goto, Where, Working, Answered
    <2> QED
      BY <1>6, <2>1, <2>2 DEF CreatePayment
  <1>7. ASSUME NEW r \in Req, SettleRecorded(r) PROVE TypeOK'
    <2>1. Settleable(arg[r].inv, arg[r].amount)
            => Settled(arg[r].inv, arg[r].amount, arg[r].of) \in InvoiceRow
      BY <1>7, SettledTyped, AskType DEF SettleRecorded, At, RequestsFit
    <2>2. pc' \in [Req -> Where]
      BY <1>7 DEF SettleRecorded, Goto, Where, Working, Answered
    <2> QED
      BY <1>7, <2>1, <2>2 DEF SettleRecorded
  <1>8. ASSUME NEW r \in Req, MarkFailed(r) PROVE TypeOK'
    <2>1. payment' \in [PaymentId -> PaymentRow]
      <3>1. payment[arg[r].of] \in PaymentRow
        BY AskType
      <3>2. [payment[arg[r].of] EXCEPT !.status = "failed"] \in PaymentRow
        BY <3>1 DEF PaymentRow, PaymentStatus
      <3>3. payment' = [payment EXCEPT
              ![arg[r].of] = [payment[arg[r].of] EXCEPT !.status = "failed"]]
        BY <1>8 DEF MarkFailed
      <3> QED
        BY <3>2, <3>3
    <2> QED
      BY <1>8, <2>1 DEF MarkFailed, Goto, Where, Answered
  <1>9. ASSUME NEW r \in Req, ReduceBalance(r) PROVE TypeOK'
    BY <1>9, AskType DEF ReduceBalance, Goto, Where, Answered
  <1>10. ASSUME NEW r \in Req, ReadForCheckout(r) PROVE TypeOK'
    <2>1. invoice[arg[r].inv] \in InvoiceRow
      BY AskType
    <2>2. arg' \in [Req -> Ask]
      <3>1. PICK a \in Nat : arg' = [arg EXCEPT ![r].amount = a]
        <4>1. invoice[arg[r].inv].due \in Nat /\ arg[r].amount \in Nat
          BY <2>1, AskType DEF InvoiceRow
        <4> QED
          BY <1>10, <4>1 DEF ReadForCheckout
      <3>2. arg[r] \in Ask
        OBVIOUS
      <3>3. [arg[r] EXCEPT !.amount = a] \in Ask
        BY <3>2 DEF Ask
      <3>4. arg' = [arg EXCEPT ![r] = [arg[r] EXCEPT !.amount = a]]
        BY <3>1
      <3> QED
        BY <3>3, <3>4
    <2>3. pc' \in [Req -> Where]
      BY <1>10 DEF ReadForCheckout, Goto, Where, Working, Answered
    <2> QED
      BY <1>10, <2>2, <2>3 DEF ReadForCheckout
  <1>11. ASSUME NEW r \in Req, CheckoutCommit(r) PROVE TypeOK'
    <2>1. Settleable(arg[r].inv, arg[r].amount)
            => Settled(arg[r].inv, arg[r].amount, arg[r].of) \in InvoiceRow
      BY <1>11, SettledTyped, AskType DEF CheckoutCommit, At, RequestsFit
    <2>2. NewPayment(r, "completed") \in PaymentRow
      BY <1>11, NewPaymentWithin DEF CheckoutCommit, At, RequestsFit
    <2>3. pc' \in [Req -> Where]
      BY <1>11 DEF CheckoutCommit, Goto, Where, Working, Answered
    <2> QED
      BY <1>11, <2>1, <2>2, <2>3, AskType DEF CheckoutCommit
  <1>12. ASSUME NEW r \in Req, RefundCommit(r) PROVE TypeOK'
    <2>1. Reopened(arg[r].inv, arg[r].amount) \in InvoiceRow
      BY <1>12, AskType, ReopenedTyped DEF RefundCommit, Claimable, At, RequestsFit
    <2>2. payment[arg[r].of].refunded + arg[r].amount <= payment[arg[r].of].amount
            => GiveBack(arg[r].of, arg[r].amount) \in PaymentRow
      BY AskType, GiveBackWithin
    <2>3. pc' \in [Req -> Where]
      BY <1>12 DEF RefundCommit, Claimable, Goto, Where, Working, Answered
    <2> QED
      BY <1>12, <2>1, <2>2, <2>3, AskType DEF RefundCommit, Claimable
  <1>13. ASSUME NEW r \in Req, CutOff(r) PROVE TypeOK'
    BY <1>13 DEF CutOff
  <1>14. CASE UNCHANGED vars
    BY <1>14 DEF vars
  <1> QED
    BY <1>1, <1>2, <1>3, <1>4, <1>5, <1>6, <1>7, <1>8, <1>9, <1>10, <1>11, <1>12, <1>13, <1>14
       DEF Next, Receive, Step

\* The only actions that write invoices, and those that write payments.
LEMMA InvoiceWriters ==
  ASSUME [Next]_vars
  PROVE  \/ UNCHANGED invoice
         \/ \E r \in Req : \/ SettleRecorded(r) \/ CheckoutCommit(r) \/ RefundCommit(r)
                           \/ \E a \in Amount : AccountPayment(r, a)
  <1> DEFINE Writes(r) == \/ SettleRecorded(r) \/ CheckoutCommit(r) \/ RefundCommit(r)
                          \/ \E a \in Amount : AccountPayment(r, a)
  <1>1. ASSUME NEW r \in Req, Receive(r) PROVE UNCHANGED invoice \/ Writes(r)
    BY <1>1 DEF Receive, ReceiveRecord, ReceiveCheckout, ReadForRefund
  <1>2. ASSUME NEW r \in Req, Step(r) PROVE UNCHANGED invoice \/ Writes(r)
    BY <1>2 DEF Step, ReadForRecord, CreatePayment, MarkFailed, ReduceBalance, ReadForCheckout
  <1>3. ASSUME NEW r \in Req, CutOff(r) PROVE UNCHANGED invoice
    BY <1>3 DEF CutOff
  <1> HIDE DEF Writes
  <1>4. UNCHANGED invoice \/ \E r \in Req : Writes(r)
    BY <1>1, <1>2, <1>3 DEF Next, vars
  <1> QED
    BY <1>4 DEF Writes

LEMMA PaymentWriters ==
  ASSUME [Next]_vars
  PROVE  \/ UNCHANGED payment
         \/ \E r \in Req : \/ CreatePayment(r) \/ MarkFailed(r) \/ CheckoutCommit(r)
                           \/ RefundCommit(r) \/ \E a \in Amount : AccountPayment(r, a)
  <1> DEFINE Writes(r) == \/ CreatePayment(r) \/ MarkFailed(r) \/ CheckoutCommit(r)
                          \/ RefundCommit(r) \/ \E a \in Amount : AccountPayment(r, a)
  <1>1. ASSUME NEW r \in Req, Receive(r) PROVE UNCHANGED payment \/ Writes(r)
    BY <1>1 DEF Receive, ReceiveRecord, ReceiveCheckout, ReadForRefund
  <1>2. ASSUME NEW r \in Req, Step(r) PROVE UNCHANGED payment \/ Writes(r)
    BY <1>2 DEF Step, ReadForRecord, SettleRecorded, ReduceBalance, ReadForCheckout
  <1>3. ASSUME NEW r \in Req, CutOff(r) PROVE UNCHANGED payment
    BY <1>3 DEF CutOff
  <1> HIDE DEF Writes
  <1>4. UNCHANGED payment \/ \E r \in Req : Writes(r)
    BY <1>1, <1>2, <1>3 DEF Next, vars
  <1> QED
    BY <1>4 DEF Writes

LEMMA BooksStep == IInv /\ BooksClose /\ [Next]_vars => BooksClose'
  <1> SUFFICES ASSUME IInv, BooksClose, [Next]_vars, NEW i \in Invoice PROVE Closes(i, invoice'[i])
    BY DEF BooksClose, Closes
  <1> USE SettlementAssumption DEF IInv
  <1>0. Closes(i, invoice[i]) /\ invoice \in [Invoice -> InvoiceRow]
    BY DEF BooksClose, Closes, TypeOK
  <1>1. CASE UNCHANGED invoice
    BY <1>0, <1>1
  <1>2. ASSUME NEW r \in Req, SettleRecorded(r) PROVE Closes(i, invoice'[i])
    <2>1. Settleable(arg[r].inv, arg[r].amount)
            => Closes(arg[r].inv, Settled(arg[r].inv, arg[r].amount, arg[r].of))
      BY <1>2, SettledCloses, AskType DEF SettleRecorded, At, RequestsFit
    <2> QED
      BY <1>0, <1>2, <2>1, AskType DEF SettleRecorded
  <1>3. ASSUME NEW r \in Req, CheckoutCommit(r) PROVE Closes(i, invoice'[i])
    <2>1. Settleable(arg[r].inv, arg[r].amount)
            => Closes(arg[r].inv, Settled(arg[r].inv, arg[r].amount, arg[r].of))
      BY <1>3, SettledCloses, AskType DEF CheckoutCommit, At, RequestsFit
    <2> QED
      BY <1>0, <1>3, <2>1, AskType DEF CheckoutCommit
  <1>4. ASSUME NEW r \in Req, RefundCommit(r) PROVE Closes(i, invoice'[i])
    <2>1. Closes(arg[r].inv, Reopened(arg[r].inv, arg[r].amount))
      BY <1>4, AskType, ReopenedCloses DEF RefundCommit, Claimable, At, RequestsFit
    <2> QED
      BY <1>0, <1>4, <2>1, AskType DEF RefundCommit, Claimable
  <1>5. ASSUME NEW r \in Req, NEW a \in Amount, AccountPayment(r, a)
        PROVE  Closes(i, invoice'[i])
    <2>1. ASSUME NEW split \in [Invoice -> 0..a], Spread(r, a, split)
          PROVE  Closes(i, invoice'[i])
      <3>1. split[i] > 0 => Closes(i, Settled(i, split[i], <<r, i>>))
        BY <2>1, SettledCloses DEF Spread, PaymentId
      <3> QED
        BY <1>0, <2>1, <3>1 DEF Spread
    <2> QED
      BY <1>0, <1>5, <2>1, AccountCases
  <1> QED
    BY <1>1, <1>2, <1>3, <1>4, <1>5, InvoiceWriters

LEMMA RefundStep == IInv /\ [Next]_vars => RefundWithinPayment'
  <1> SUFFICES ASSUME IInv, [Next]_vars, NEW p \in PaymentId PROVE Within(payment'[p])
    BY DEF RefundWithinPayment, Within
  <1> USE SettlementAssumption DEF IInv
  <1>0. Within(payment[p]) /\ payment \in [PaymentId -> PaymentRow]
    BY DEF RefundWithinPayment, Within, TypeOK
  <1>1. CASE UNCHANGED payment
    BY <1>0, <1>1
  <1>2. ASSUME NEW r \in Req, CreatePayment(r) PROVE Within(payment'[p])
    <2>1. Within(NewPayment(r, arg[r].asked))
      BY <1>2, NewPaymentWithin, AskType DEF CreatePayment, At, RequestsFit
    <2> QED
      BY <1>0, <1>2, <2>1, AskType DEF CreatePayment
  <1>3. ASSUME NEW r \in Req, MarkFailed(r) PROVE Within(payment'[p])
    <2>1. payment' = [payment EXCEPT ![arg[r].of].status = "failed"]
      BY <1>3 DEF MarkFailed
    <2>2. CASE p = arg[r].of
      <3>1. /\ payment'[p].status = "failed"
            /\ payment'[p].refunded = payment[p].refunded
            /\ payment'[p].amount = payment[p].amount
        BY <1>0, <2>1, <2>2 DEF PaymentRow
      <3> QED
        BY <1>0, <3>1 DEF Within
    <2> QED
      BY <1>0, <2>1, <2>2
  <1>4. ASSUME NEW r \in Req, CheckoutCommit(r) PROVE Within(payment'[p])
    <2>1. Within(NewPayment(r, "completed"))
      BY <1>4, NewPaymentWithin DEF CheckoutCommit, At, RequestsFit
    <2> QED
      BY <1>0, <1>4, <2>1, AskType DEF CheckoutCommit
  <1>5. ASSUME NEW r \in Req, RefundCommit(r) PROVE Within(payment'[p])
    <2>1. payment[arg[r].of].refunded + arg[r].amount <= payment[arg[r].of].amount
            => Within(GiveBack(arg[r].of, arg[r].amount))
      BY AskType, GiveBackWithin
    <2> QED
      BY <1>0, <1>5, <2>1, AskType DEF RefundCommit, Claimable
  <1>6. ASSUME NEW r \in Req, NEW a \in Amount, AccountPayment(r, a)
        PROVE  Within(payment'[p])
    <2>1. ASSUME NEW split \in [Invoice -> 0..a], Spread(r, a, split)
          PROVE  Within(payment'[p])
      <3>1. p[2] \in Invoice
        BY DEF PaymentId
      <3>2. split[p[2]] > 0 =>
              Within([status |-> "completed", amount |-> split[p[2]],
                      refunded |-> 0, key |-> NoKey])
        BY <3>1 DEF Within
      <3> QED
        BY <1>0, <2>1, <3>2 DEF Spread
    <2> QED
      BY <1>0, <1>6, <2>1, AccountCases
  <1> QED
    BY <1>1, <1>2, <1>3, <1>4, <1>5, <1>6, PaymentWriters

\* A request moves, and changes what it asks, only by its own steps.
LEMMA OwnSteps ==
  ASSUME TypeOK, [Next]_vars, NEW q \in Req
  PROVE  \/ Receive(q) \/ Step(q)
         \/ pc'[q] = pc[q] /\ arg'[q] = arg[q]
  <1> USE DEF TypeOK, Goto
  <1>1. ASSUME NEW r \in Req, Receive(r), r # q PROVE pc'[q] = pc[q] /\ arg'[q] = arg[q]
    BY <1>1 DEF Receive, ReceiveRecord, ReceiveCheckout, ReadForRefund, AccountPayment
  <1>2. ASSUME NEW r \in Req, Step(r), r # q PROVE pc'[q] = pc[q] /\ arg'[q] = arg[q]
    BY <1>2 DEF Step, ReadForRecord, CreatePayment, SettleRecorded, MarkFailed,
                ReduceBalance, ReadForCheckout, CheckoutCommit, RefundCommit
  <1>3. CASE UNCHANGED <<pc, arg>>
    BY <1>3
  <1> QED
    BY <1>1, <1>2, <1>3 DEF Next, CutOff, vars

\* Who has been answered, or is about to be, asks nothing else.
LEMMA SettledStays ==
  ASSUME TypeOK, [Next]_vars, NEW q \in Req, pc[q] \in {"reduce", "ok"}
  PROVE  pc'[q] \in {"reduce", "ok"} /\ arg'[q] = arg[q]
  <1>1. CASE Receive(q)
    BY <1>1 DEF Receive, ReceiveRecord, ReceiveCheckout, ReadForRefund, AccountPayment, At
  <1>2. CASE Step(q)
    <2>1. ReduceBalance(q)
      BY <1>2 DEF Step, ReadForRecord, CreatePayment, SettleRecorded, MarkFailed,
                  ReadForCheckout, CheckoutCommit, RefundCommit, At
    <2> QED
      BY <2>1 DEF ReduceBalance, Goto, TypeOK
  <1> QED
    BY <1>1, <1>2, OwnSteps

LEMMA OneChargeStep == IInv /\ [Next]_vars => OneChargePerKey'
  <1> SUFFICES ASSUME IInv, [Next]_vars, NEW p \in PaymentId, NEW q \in PaymentId,
                      payment'[p].status # "none", payment'[q].status # "none",
                      payment'[p].key = payment'[q].key, payment'[p].key # NoKey
               PROVE  p = q
    BY DEF OneChargePerKey
  <1> DEFINE Kept(x) == payment'[x].key = payment[x].key
                        /\ (payment'[x].status = "none" <=> payment[x].status = "none")
  <1> USE DEF IInv
  <1>0. payment \in [PaymentId -> PaymentRow]
    BY DEF TypeOK
  <1>1. CASE Kept(p) /\ Kept(q)
    BY <1>1 DEF OneChargePerKey
  <1>2. ASSUME NEW r \in Req, ~KeyTaken(arg[r].key), NEW s,
               payment' = [payment EXCEPT ![arg[r].of] = NewPayment(r, s)]
        PROVE  p = q
    <2>1. \A x \in PaymentId : x # arg[r].of => payment'[x] = payment[x]
      BY <1>0, <1>2
    <2>2. payment'[arg[r].of].key = arg[r].key
      BY <1>0, <1>2, AskType DEF NewPayment
    <2>3. ASSUME NEW x \in PaymentId, x # arg[r].of, payment[x].status # "none",
                 arg[r].key # NoKey
          PROVE  payment[x].key # arg[r].key
      BY <1>2, <2>3 DEF KeyTaken
    <2> QED
      BY <2>1, <2>2, <2>3 DEF OneChargePerKey
  <1>3. ASSUME NEW r \in Req, CreatePayment(r) PROVE p = q
    BY <1>1, <1>2, <1>3 DEF CreatePayment
  <1>4. ASSUME NEW r \in Req, CheckoutCommit(r) PROVE p = q
    BY <1>1, <1>2, <1>4 DEF CheckoutCommit
  <1>5. ASSUME NEW r \in Req, MarkFailed(r) PROVE p = q
    <2>1. payment[arg[r].of].status # "none"
      BY <1>5 DEF MarkFailed, At, InFlightExists
    <2>2. payment' = [payment EXCEPT ![arg[r].of].status = "failed"]
      BY <1>5 DEF MarkFailed
    <2>3. ASSUME NEW x \in PaymentId PROVE Kept(x)
      <3>1. CASE x = arg[r].of
        BY <1>0, <2>1, <2>2, <3>1 DEF PaymentRow
      <3>2. CASE x # arg[r].of
        BY <1>0, <2>2, <3>2
      <3> QED
        BY <3>1, <3>2
    <2> QED
      BY <1>1, <2>3
  <1>6. ASSUME NEW r \in Req, RefundCommit(r) PROVE p = q
    <2>1. ASSUME NEW x \in PaymentId PROVE Kept(x)
      BY <1>0, <1>6 DEF RefundCommit, Claimable, GiveBack
    <2> QED
      BY <1>1, <2>1
  <1>7. ASSUME NEW r \in Req, NEW a \in Amount, AccountPayment(r, a) PROVE p = q
    <2>1. ASSUME NEW split \in [Invoice -> 0..a], Spread(r, a, split) PROVE p = q
      <3>1. ASSUME NEW x \in PaymentId, payment'[x].key # NoKey
            PROVE  payment'[x] = payment[x]
        BY <2>1, <3>1 DEF Spread
      <3> QED
        BY <3>1 DEF OneChargePerKey
    <2> QED
      BY <1>1, <1>7, <2>1, AccountCases
  <1>8. CASE UNCHANGED payment
    BY <1>1, <1>8
  <1> QED
    BY <1>3, <1>4, <1>5, <1>6, <1>7, <1>8, PaymentWriters

LEMMA InFlightStep == IInv /\ [Next]_vars => InFlightExists'
  <1> SUFFICES ASSUME IInv, [Next]_vars, NEW q \in Req, pc'[q] \in {"settle", "fail"}
               PROVE  payment'[arg'[q].of].status \in {"completed", "refunded"}
    BY DEF InFlightExists
  <1> DEFINE Stands(x) == payment[x].status \in {"completed", "refunded"}
  <1> USE DEF IInv
  <1>0. /\ payment \in [PaymentId -> PaymentRow]
        /\ pc \in [Req -> Where] /\ arg \in [Req -> Ask]
    BY DEF TypeOK
  \* A request that was already there keeps its payment, unless it is the one that fails it.
  <1>1. ASSUME pc[q] \in {"settle", "fail"}, arg'[q] = arg[q]
        PROVE  payment'[arg'[q].of].status \in {"completed", "refunded"}
    <2>0. /\ Stands(arg[q].of) /\ arg[q].of = <<q, arg[q].inv>>
          /\ arg[q].of \in PaymentId
      BY <1>1, AskType DEF InFlightExists, RequestsFit
    <2>1. CASE UNCHANGED payment
      BY <1>1, <2>0, <2>1
    <2>2. ASSUME NEW r \in Req, CreatePayment(r) PROVE Stands(arg[q].of)'
      <3>1. arg[r].of = <<r, arg[r].inv>> /\ r # q
        BY <1>1, <2>2 DEF CreatePayment, At, RequestsFit
      <3> QED
        BY <1>0, <1>1, <2>0, <2>2, <3>1 DEF CreatePayment
    <2>3. ASSUME NEW r \in Req, CheckoutCommit(r) PROVE Stands(arg[q].of)'
      <3>1. arg[r].of = <<r, arg[r].inv>> /\ r # q
        BY <1>1, <2>3 DEF CheckoutCommit, At, RequestsFit
      <3> QED
        BY <1>0, <1>1, <2>0, <2>3, <3>1 DEF CheckoutCommit
    <2>4. ASSUME NEW r \in Req, MarkFailed(r) PROVE Stands(arg[q].of)'
      <3>1. arg[r].of = <<r, arg[r].inv>>
        BY <2>4 DEF MarkFailed, At, RequestsFit
      <3>2. r # q
        BY <1>0, <2>4 DEF MarkFailed, At, Goto
      <3>3. payment' = [payment EXCEPT ![arg[r].of].status = "failed"]
        BY <2>4 DEF MarkFailed
      <3>4. payment'[arg[q].of] = payment[arg[q].of]
        BY <1>0, <2>0, <3>1, <3>2, <3>3
      <3> QED
        BY <1>1, <2>0, <3>4
    <2>5. ASSUME NEW r \in Req, RefundCommit(r) PROVE Stands(arg[q].of)'
      BY <1>0, <1>1, <2>0, <2>5 DEF RefundCommit, Claimable, GiveBack
    <2>6. ASSUME NEW r \in Req, NEW a \in Amount, AccountPayment(r, a)
          PROVE  Stands(arg[q].of)'
      <3>1. r # q
        BY <1>1, <2>6 DEF AccountPayment, At
      <3> QED
        BY <1>1, <2>0, <2>6, <3>1, AccountCases DEF Spread
    <2> QED
      BY <1>1, <2>1, <2>2, <2>3, <2>4, <2>5, <2>6, PaymentWriters
  <1>2. CASE CreatePayment(q)
    <2>1. /\ payment' = [payment EXCEPT ![arg[q].of] = NewPayment(q, arg[q].asked)]
          /\ arg[q].asked = "completed" /\ arg' = arg
      BY <1>0, <1>2 DEF CreatePayment, Goto
    <2> QED
      BY <1>0, <2>1, AskType DEF NewPayment
  <1>3. CASE ~CreatePayment(q)
    <2>1. CASE Receive(q)
      BY <1>0, <2>1 DEF Receive, ReceiveRecord, ReceiveCheckout, ReadForRefund,
                        AccountPayment, Goto
    <2>2. CASE Step(q)
      <3>1. SettleRecorded(q)
        BY <1>0, <1>3, <2>2 DEF Step, ReadForRecord, MarkFailed, ReduceBalance,
                                ReadForCheckout, CheckoutCommit, RefundCommit, Goto
      <3> QED
        BY <1>1, <3>1 DEF SettleRecorded, At
    <2>3. CASE pc'[q] = pc[q] /\ arg'[q] = arg[q]
      BY <1>1, <2>3
    <2> QED
      BY <2>1, <2>2, <2>3, OwnSteps
  <1> QED
    BY <1>2, <1>3

LEMMA RequestsFitStep == IInv /\ [Next]_vars => RequestsFit'
  <1> DEFINE Fits(r, p, q) ==
        /\ p \in {"create", "settle", "reduce", "fail"} => q.op = "record"
        /\ p = "commit" => q.op = "checkout"
        /\ p = "claim" => q.op = "refund" /\ q.inv = q.of[2]
        /\ p \in {"create", "settle", "reduce", "fail", "commit", "claim"} => q.amount > 0
        /\ q.op = "record" => q.amount > 0
        /\ q.op \in {"record", "checkout"} => q.of = <<r, q.inv>>
        /\ p \in {"settle", "fail", "reduce"} => q.asked = "completed"
  <1> SUFFICES ASSUME IInv, [Next]_vars, NEW r \in Req PROVE Fits(r, pc'[r], arg'[r])
    BY DEF RequestsFit
  <1> USE SettlementAssumption DEF IInv
  <1>0. /\ Fits(r, pc[r], arg[r])
        /\ pc \in [Req -> Where] /\ arg \in [Req -> Ask]
    BY DEF RequestsFit, TypeOK
  <1>1. ASSUME NEW i \in Invoice, NEW a \in Amount, NEW k, NEW s, ReceiveRecord(r, i, a, k, s)
        PROVE  Fits(r, pc'[r], arg'[r])
    <2>1. /\ arg'[r] = Asks("record", i, a, k, s, <<r, i>>)
          /\ pc'[r] \in {"replayed", "read"}
      BY <1>0, <1>1 DEF ReceiveRecord, Goto
    <2>2. a > 0
      OBVIOUS
    <2> QED
      BY <2>1, <2>2 DEF Asks
  <1>2. ASSUME NEW i \in Invoice, NEW a, NEW k, ReceiveCheckout(r, i, a, k)
        PROVE  Fits(r, pc'[r], arg'[r])
    <2>1. /\ arg'[r] = Asks("checkout", i, a, k, "completed", <<r, i>>)
          /\ pc'[r] \in {"replayed", "read"}
      BY <1>0, <1>2 DEF ReceiveCheckout, Goto
    <2> QED
      BY <2>1 DEF Asks
  <1>3. ASSUME NEW p \in PaymentId, NEW a, ReadForRefund(r, p, a)
        PROVE  Fits(r, pc'[r], arg'[r])
    <2> DEFINE w == IF a = 0 THEN Refundable(p) ELSE a
    <2>1. arg'[r] = Asks("refund", p[2], w, NoKey, "completed", p)
      BY <1>0, <1>3 DEF ReadForRefund
    <2>2. pc'[r] # "rejected" => pc'[r] = "claim" /\ 0 < w
      BY <1>0, <1>3 DEF ReadForRefund, Goto
    <2> HIDE DEF w
    <2> QED
      BY <2>1, <2>2 DEF Asks
  <1>4. ASSUME NEW a \in Amount, AccountPayment(r, a) PROVE Fits(r, pc'[r], arg'[r])
    <2>1. arg'[r] = Asks("account", 1, a, NoKey, "completed", <<r, 1>>)
      BY <1>0, <1>4 DEF AccountPayment
    <2>2. pc'[r] \in {"rejected", "ok"}
      BY <1>0, <1>4, AccountCases DEF Spread, Goto
    <2> QED
      BY <2>1, <2>2 DEF Asks
  <1>5. CASE Step(r) /\ ~ReadForCheckout(r)
    <2>1. arg' = arg
      BY <1>5 DEF Step, ReadForRecord, CreatePayment, SettleRecorded, MarkFailed,
                  ReduceBalance, CheckoutCommit, RefundCommit
    <2>2. \/ pc'[r] \in Answered
          \/ pc[r] = "read" /\ arg[r].op = "record" /\ pc'[r] = "create"
          \/ pc[r] = "create" /\ arg[r].asked = "completed" /\ pc'[r] = "settle"
          \/ pc[r] = "settle" /\ pc'[r] \in {"reduce", "fail"}
      BY <1>0, <1>5 DEF Step, ReadForRecord, CreatePayment, SettleRecorded, MarkFailed,
                        ReduceBalance, CheckoutCommit, RefundCommit, At, Goto, Answered
    <2> QED
      BY <1>0, <2>1, <2>2 DEF Answered
  <1>6. CASE ReadForCheckout(r)
    <2> DEFINE a == IF arg[r].amount = 0 THEN invoice[arg[r].inv].due ELSE arg[r].amount
    <2>1. /\ arg[r].op = "checkout" /\ arg' = [arg EXCEPT ![r].amount = a]
          /\ pc'[r] # "rejected" => pc'[r] = "commit" /\ CanPay(arg[r].inv, a)
      BY <1>0, <1>6 DEF ReadForCheckout, Goto
    <2>2. /\ arg'[r].op = "checkout" /\ arg'[r].amount = a
          /\ arg'[r].of = arg[r].of /\ arg'[r].inv = arg[r].inv
      BY <1>0, <2>1 DEF Ask
    <2>3. invoice[arg[r].inv] \in InvoiceRow /\ arg[r].amount \in Nat
      BY AskType DEF TypeOK
    <2>4. pc'[r] = "commit" => a > 0
      BY <2>1, <2>3 DEF CanPay, InvoiceRow
    <2> HIDE DEF a
    <2> QED
      BY <1>0, <2>1, <2>2, <2>4
  <1>7. CASE pc'[r] = pc[r] /\ arg'[r] = arg[r]
    BY <1>0, <1>7
  <1> QED
    BY <1>1, <1>2, <1>3, <1>4, <1>5, <1>6, <1>7, OwnSteps DEF Receive

\* What a history holds was settled, and stays so.
LEMMA HistoryKept ==
  ASSUME IInv, [Next]_vars, NEW i \in Invoice, NEW p \in invoice[i].history
  PROVE  /\ p \in PaymentId /\ p[2] = i
         /\ payment'[p].status \in {"completed", "refunded"}
         /\ pc'[p[1]] \in {"reduce", "ok"}
         /\ arg'[p[1]].op \in {"record", "checkout", "account"}
  <1> USE DEF IInv
  <1>0. /\ payment \in [PaymentId -> PaymentRow]
        /\ pc \in [Req -> Where] /\ arg \in [Req -> Ask]
    BY DEF TypeOK
  <1>1. /\ p \in PaymentId /\ p[2] = i /\ p[1] \in Req
        /\ payment[p].status \in {"completed", "refunded"}
        /\ pc[p[1]] \in {"reduce", "ok"}
        /\ arg[p[1]].op \in {"record", "checkout", "account"}
    BY DEF HistoryIsSettled, TypeOK, InvoiceRow, PaymentId
  <1>2. pc'[p[1]] \in {"reduce", "ok"} /\ arg'[p[1]] = arg[p[1]]
    BY <1>1, SettledStays
  <1> DEFINE Stands == payment[p].status \in {"completed", "refunded"}
  <1>3. CASE UNCHANGED payment
    BY <1>1, <1>2, <1>3
  <1>4. ASSUME NEW r \in Req, CreatePayment(r) PROVE Stands'
    <2>1. arg[r].of = <<r, arg[r].inv>> /\ r # p[1]
      BY <1>1, <1>4 DEF CreatePayment, At, RequestsFit
    <2> QED
      BY <1>0, <1>1, <1>4, <2>1 DEF CreatePayment
  <1>5. ASSUME NEW r \in Req, CheckoutCommit(r) PROVE Stands'
    <2>1. arg[r].of = <<r, arg[r].inv>> /\ r # p[1]
      BY <1>1, <1>5 DEF CheckoutCommit, At, RequestsFit
    <2> QED
      BY <1>0, <1>1, <1>5, <2>1 DEF CheckoutCommit
  <1>6. ASSUME NEW r \in Req, MarkFailed(r) PROVE Stands'
    <2>1. arg[r].of = <<r, arg[r].inv>> /\ r # p[1]
      BY <1>1, <1>6 DEF MarkFailed, At, RequestsFit
    <2>2. payment' = [payment EXCEPT ![arg[r].of].status = "failed"]
      BY <1>6 DEF MarkFailed
    <2>3. payment'[p] = payment[p]
      BY <1>0, <1>1, <2>1, <2>2
    <2> QED
      BY <1>1, <2>3
  <1>7. ASSUME NEW r \in Req, RefundCommit(r) PROVE Stands'
    BY <1>0, <1>1, <1>7 DEF RefundCommit, Claimable, GiveBack
  <1>8. ASSUME NEW r \in Req, NEW a \in Amount, AccountPayment(r, a) PROVE Stands'
    <2>1. r # p[1]
      BY <1>1, <1>8 DEF AccountPayment, At
    <2> QED
      BY <1>1, <1>8, <2>1, AccountCases DEF Spread
  <1> QED
    BY <1>1, <1>2, <1>3, <1>4, <1>5, <1>6, <1>7, <1>8, PaymentWriters

LEMMA HistoryStep == IInv /\ [Next]_vars => HistoryIsSettled'
  <1> SUFFICES ASSUME IInv, [Next]_vars, NEW i \in Invoice, NEW p \in invoice'[i].history
               PROVE  /\ p[2] = i
                      /\ payment'[p].status \in {"completed", "refunded"}
                      /\ pc'[p[1]] \in {"reduce", "ok"}
                      /\ arg'[p[1]].op \in {"record", "checkout", "account"}
    BY DEF HistoryIsSettled
  <1> DEFINE Good == /\ p[2] = i
                     /\ payment'[p].status \in {"completed", "refunded"}
                     /\ pc'[p[1]] \in {"reduce", "ok"}
                     /\ arg'[p[1]].op \in {"record", "checkout", "account"}
  <1> USE DEF IInv
  <1>0. /\ invoice \in [Invoice -> InvoiceRow] /\ payment \in [PaymentId -> PaymentRow]
        /\ pc \in [Req -> Where] /\ arg \in [Req -> Ask]
    BY DEF TypeOK
  <1>1. CASE p \in invoice[i].history
    BY <1>1, HistoryKept
  <1>2. ASSUME NEW r \in Req, SettleRecorded(r), p \notin invoice[i].history PROVE Good
    <2>1. i = arg[r].inv /\ p = arg[r].of /\ pc'[r] = "reduce"
      BY <1>0, <1>2, AskType DEF SettleRecorded, Settled, Goto
    <2>2. /\ arg[r].of = <<r, arg[r].inv>> /\ arg[r].op = "record"
          /\ payment[arg[r].of].status \in {"completed", "refunded"}
      BY <1>2 DEF SettleRecorded, At, RequestsFit, InFlightExists
    <2> QED
      BY <1>2, <2>1, <2>2 DEF SettleRecorded
  <1>3. ASSUME NEW r \in Req, CheckoutCommit(r), p \notin invoice[i].history PROVE Good
    <2>1. /\ i = arg[r].inv /\ p = arg[r].of /\ pc'[r] = "ok"
          /\ payment'[arg[r].of].status = "completed" /\ arg' = arg
      BY <1>0, <1>3, AskType DEF CheckoutCommit, Settled, Goto, NewPayment
    <2>2. arg[r].of = <<r, arg[r].inv>> /\ arg[r].op = "checkout"
      BY <1>3 DEF CheckoutCommit, At, RequestsFit
    <2> QED
      BY <2>1, <2>2
  <1>4. ASSUME NEW r \in Req, RefundCommit(r) PROVE p \in invoice[i].history
    BY <1>0, <1>4, AskType DEF RefundCommit, Claimable, Reopened
  <1>5. ASSUME NEW r \in Req, NEW a \in Amount, AccountPayment(r, a),
               p \notin invoice[i].history
        PROVE  Good
    <2>1. PICK split \in [Invoice -> 0..a] : Spread(r, a, split)
      BY <1>5, AccountCases
    <2>2. split[i] > 0 /\ p = <<r, i>> /\ p \in PaymentId
      BY <1>5, <2>1 DEF Spread, Settled, PaymentId
    <2>3. payment'[p].status = "completed"
      BY <2>1, <2>2 DEF Spread
    <2>4. pc'[r] = "ok"
      BY <1>0, <2>1 DEF Spread, Goto
    <2>5. arg'[r].op = "account"
      BY <1>0, <1>5 DEF AccountPayment, Asks
    <2> QED
      BY <2>2, <2>3, <2>4, <2>5
  <1> QED
    BY <1>1, <1>2, <1>3, <1>4, <1>5, InvoiceWriters

LEMMA HistoryGrows ==
  ASSUME IInv, [Next]_vars, NEW i \in Invoice
  PROVE  invoice[i].history \subseteq invoice'[i].history
  <1> USE DEF IInv
  <1>0. invoice \in [Invoice -> InvoiceRow]
    BY DEF TypeOK
  <1>1. ASSUME NEW r \in Req, SettleRecorded(r)
        PROVE  invoice[i].history \subseteq invoice'[i].history
    BY <1>0, <1>1, AskType DEF SettleRecorded, Settled
  <1>2. ASSUME NEW r \in Req, CheckoutCommit(r)
        PROVE  invoice[i].history \subseteq invoice'[i].history
    BY <1>0, <1>2, AskType DEF CheckoutCommit, Settled
  <1>3. ASSUME NEW r \in Req, RefundCommit(r)
        PROVE  invoice[i].history \subseteq invoice'[i].history
    BY <1>0, <1>3, AskType DEF RefundCommit, Claimable, Reopened
  <1>4. ASSUME NEW r \in Req, NEW a \in Amount, AccountPayment(r, a)
        PROVE  invoice[i].history \subseteq invoice'[i].history
    BY <1>4, AccountCases DEF Spread, Settled
  <1> QED
    BY <1>1, <1>2, <1>3, <1>4, InvoiceWriters

LEMMA SettledStep == IInv /\ [Next]_vars => SettledInHistory'
  <1> SUFFICES ASSUME IInv, [Next]_vars, NEW r \in Req,
                      arg'[r].op \in {"record", "checkout"}, arg'[r].asked = "completed",
                      pc'[r] \in {"reduce", "ok"}
               PROVE  arg'[r].of \in invoice'[arg'[r].inv].history
    BY DEF SettledInHistory
  <1> USE DEF IInv
  <1>0. /\ pc \in [Req -> Where] /\ arg \in [Req -> Ask]
        /\ invoice \in [Invoice -> InvoiceRow]
    BY DEF TypeOK
  <1>1. CASE pc[r] \in {"reduce", "ok"}
    <2>1. arg'[r] = arg[r]
      BY <1>1, SettledStays
    <2>2. arg[r].of \in invoice[arg[r].inv].history
      BY <1>1, <2>1 DEF SettledInHistory
    <2> QED
      BY <2>1, <2>2, AskType, HistoryGrows
  <1>2. CASE SettleRecorded(r)
    BY <1>0, <1>2, AskType DEF SettleRecorded, Settled, Goto
  <1>3. CASE CheckoutCommit(r)
    BY <1>0, <1>3, AskType DEF CheckoutCommit, Settled, Goto
  <1>4. CASE Receive(r)
    <2>1. ~\E a \in Amount : AccountPayment(r, a)
      BY <1>0 DEF AccountPayment, Asks
    <2>2. pc'[r] \notin {"reduce", "ok"}
      BY <1>0, <1>4, <2>1 DEF Receive, ReceiveRecord, ReceiveCheckout, ReadForRefund, Goto
    <2> QED
      BY <2>2
  <1>5. CASE CreatePayment(r) \/ RefundCommit(r)
    <2>1. CASE CreatePayment(r)
      BY <1>0, <2>1 DEF CreatePayment, Goto
    <2>2. CASE RefundCommit(r)
      BY <1>0, <2>2 DEF RefundCommit, Claimable, At, RequestsFit
    <2> QED
      BY <1>5, <2>1, <2>2
  <1>6. CASE ReadForRecord(r) \/ MarkFailed(r) \/ ReadForCheckout(r)
    BY <1>0, <1>6 DEF ReadForRecord, MarkFailed, ReadForCheckout, Goto
  <1>7. CASE ReduceBalance(r)
    BY <1>1, <1>7 DEF ReduceBalance, At
  <1> QED
    BY <1>1, <1>2, <1>3, <1>4, <1>5, <1>6, <1>7, OwnSteps DEF Step
-----------------------------------------------------------------------------
(* What the invariant gives *)

LEMMA IInvStep == IInv /\ [Next]_vars => IInv'
  BY TypeStep, RefundStep, OneChargeStep, RequestsFitStep, InFlightStep, HistoryStep,
     SettledStep
     DEF IInv

\* IInv holds in every state of every behaviour: no clamp, clock or crash is
\* assumed away.
THEOREM Invariance == Spec => [](IInv /\ BooksClose)
  <1>1. Init => IInv /\ BooksClose
    BY InitIInv, InitCloses
  <1> QED
    BY <1>1, IInvStep, BooksStep, PTL DEF Spec

\* The collections, the balance and the requests keep their types.
THEOREM TypeCorrect == Spec => []TypeOK
  <1>1. IInv => TypeOK
    BY DEF IInv
  <1> QED
    BY <1>1, Invariance, PTL

\* However recordPayment, testCheckout, refundPayment and account payments
\* interleave, an invoice's paid and due amounts make up its total and its
\* status says which of them is zero.
THEOREM BooksAlwaysClose == Spec => []BooksClose
  <1> QED
    BY Invariance, PTL

\* Concurrent refunds of a payment never give back more than it brought in.
THEOREM RefundsStayWithin == Spec => []RefundWithinPayment
  <1>1. IInv => RefundWithinPayment
    BY DEF IInv
  <1> QED
    BY <1>1, Invariance, PTL

\* However often a client repeats a keyed request, one payment carries the key.
THEOREM ChargedOnce == Spec => []OneChargePerKey
  <1>1. IInv => OneChargePerKey
    BY DEF IInv
  <1> QED
    BY <1>1, Invariance, PTL

\* A payment answered as made is in its invoice's history, one answered as
\* refused by a conflict is in none.
THEOREM AnswersAlwaysTrue == Spec => []AnswersAreTrue
  <1>1. IInv => AnswersAreTrue
    <2> SUFFICES ASSUME IInv PROVE AnswersAreTrue
      OBVIOUS
    <2> USE DEF IInv
    <2>1. ASSUME NEW r \in Req, arg[r].op \in {"record", "checkout"}, pc[r] = "conflict"
          PROVE  arg[r].of \notin invoice[arg[r].inv].history
      <3>1. arg[r].of = <<r, arg[r].inv>>
        BY <2>1 DEF RequestsFit
      <3> QED
        BY <2>1, <3>1, AskType DEF HistoryIsSettled
    <2> QED
      BY <2>1 DEF AnswersAreTrue, SettledInHistory, HistoryIsSettled
  <1> QED
    BY <1>1, Invariance, PTL

\* All of this at once, as the runs check it: wherever requests are cut off and
\* however they interleave, payments, invoices and answers agree.
THEOREM PaymentsStaySound == Spec => []PaymentsAreSound
  <1> QED
    BY TypeCorrect, BooksAlwaysClose, RefundsStayWithin, ChargedOnce,
       AnswersAlwaysTrue, PTL DEF PaymentsAreSound
-----------------------------------------------------------------------------
(* What a step may never do *)

\* A request that has not made its payment finds its place in the collection free.
NotYetMade ==
  \A r \in Req : pc[r] \in {"idle", "read", "create", "commit"} =>
    \A i \in Invoice : payment[<<r, i>>] = NoPayment

\* Users wait: what is being refunded was answered, so what is being settled
\* was not refunded.
RefundsFollowAnswers ==
  /\ \A r \in Req : pc[r] = "claim" => pc[arg[r].of[1]] = "ok"
  /\ \A r \in Req : pc[r] \in {"settle", "fail"} => payment[arg[r].of].status = "completed"

Waiting == IInv /\ NotYetMade /\ RefundsFollowAnswers

LEMMA NotYetMadeStep == IInv /\ NotYetMade /\ [Next]_vars => NotYetMade'
  <1> SUFFICES ASSUME IInv, NotYetMade, [Next]_vars, NEW q \in Req, NEW i \in Invoice,
                      pc'[q] \in {"idle", "read", "create", "commit"}
               PROVE  payment'[<<q, i>>] = NoPayment
    BY DEF NotYetMade
  <1> USE DEF IInv
  <1>0. /\ payment \in [PaymentId -> PaymentRow] /\ <<q, i>> \in PaymentId
        /\ pc \in [Req -> Where] /\ arg \in [Req -> Ask]
    BY DEF TypeOK, PaymentId
  <1>1. pc[q] \in {"idle", "read", "create", "commit"}
    <2>1. CASE Receive(q)
      BY <2>1 DEF Receive, ReceiveRecord, ReceiveCheckout, ReadForRefund, AccountPayment, At
    <2>2. CASE Step(q)
      BY <1>0, <2>2 DEF Step, ReadForRecord, CreatePayment, SettleRecorded, MarkFailed,
                        ReduceBalance, ReadForCheckout, CheckoutCommit, RefundCommit, At, Goto
    <2> QED
      BY <2>1, <2>2, OwnSteps
  <1>2. payment[<<q, i>>] = NoPayment
    BY <1>1 DEF NotYetMade
  <1>3. CASE UNCHANGED payment
    BY <1>2, <1>3
  <1>4. ASSUME NEW r \in Req, CreatePayment(r) PROVE payment'[<<q, i>>] = NoPayment
    <2>1. CASE UNCHANGED payment
      BY <1>2, <2>1
    <2>2. CASE payment' = [payment EXCEPT ![arg[r].of] = NewPayment(r, arg[r].asked)]
      <3>1. pc'[r] \in {"settle", "ok", "error"} /\ arg[r].of = <<r, arg[r].inv>>
        BY <1>0, <1>4 DEF CreatePayment, RequestsFit, At, Goto
      <3> QED
        BY <1>0, <1>2, <2>2, <3>1
    <2> QED
      BY <1>4, <2>1, <2>2 DEF CreatePayment
  <1>5. ASSUME NEW r \in Req, CheckoutCommit(r) PROVE payment'[<<q, i>>] = NoPayment
    <2>1. CASE UNCHANGED payment
      BY <1>2, <2>1
    <2>2. CASE payment' = [payment EXCEPT ![arg[r].of] = NewPayment(r, "completed")]
      <3>1. pc'[r] \in {"ok", "error", "conflict"} /\ arg[r].of = <<r, arg[r].inv>>
        BY <1>0, <1>5 DEF CheckoutCommit, RequestsFit, At, Goto
      <3> QED
        BY <1>0, <1>2, <2>2, <3>1
    <2> QED
      BY <1>5, <2>1, <2>2 DEF CheckoutCommit
  <1>6. ASSUME NEW r \in Req, MarkFailed(r) PROVE payment'[<<q, i>>] = NoPayment
    <2>1. payment' = [payment EXCEPT ![arg[r].of].status = "failed"]
      BY <1>6 DEF MarkFailed
    <2>2. arg[r].of # <<q, i>>
      BY <1>2, <1>6 DEF MarkFailed, At, InFlightExists, NoPayment
    <2>3. payment'[<<q, i>>] = payment[<<q, i>>]
      BY <1>0, <2>1, <2>2
    <2> QED
      BY <1>2, <2>3
  <1>7. ASSUME NEW r \in Req, RefundCommit(r) PROVE payment'[<<q, i>>] = NoPayment
    BY <1>0, <1>2, <1>7, AskType DEF RefundCommit, Claimable, NoPayment, RefundWithinPayment
  <1>8. ASSUME NEW r \in Req, NEW a \in Amount, AccountPayment(r, a)
        PROVE  payment'[<<q, i>>] = NoPayment
    <2>1. r = q => UNCHANGED payment
      BY <1>0, <1>8, AccountCases DEF Spread, Goto
    <2> QED
      BY <1>0, <1>2, <1>8, <2>1, AccountCases DEF Spread
  <1> QED
    BY <1>3, <1>4, <1>5, <1>6, <1>7, <1>8, PaymentWriters

LEMMA RefundsFollowStep ==
  ASSUME RefundsWait
  PROVE  IInv /\ RefundsFollowAnswers /\ [Next]_vars => RefundsFollowAnswers'
  <1> SUFFICES ASSUME IInv, RefundsFollowAnswers, [Next]_vars PROVE RefundsFollowAnswers'
    OBVIOUS
  <1> USE DEF IInv
  <1>0. /\ payment \in [PaymentId -> PaymentRow]
        /\ pc \in [Req -> Where] /\ arg \in [Req -> Ask]
    BY DEF TypeOK
  <1>ok. ASSUME NEW q \in Req, pc[q] = "ok" PROVE pc'[q] = "ok"
    <2>1. ~Receive(q) /\ ~Step(q)
      BY <1>ok DEF Receive, ReceiveRecord, ReceiveCheckout, ReadForRefund, AccountPayment,
                   Step, ReadForRecord, CreatePayment, SettleRecorded, MarkFailed,
                   ReduceBalance, ReadForCheckout, CheckoutCommit, RefundCommit, At
    <2> QED
      BY <1>ok, <2>1, OwnSteps
  <1>1. ASSUME NEW r \in Req, pc'[r] = "claim" PROVE pc'[arg'[r].of[1]] = "ok"
    <2>1. CASE pc'[r] = pc[r] /\ arg'[r] = arg[r]
      <3>1. pc[arg[r].of[1]] = "ok" /\ arg[r].of[1] \in Req
        BY <1>1, <2>1, AskType DEF RefundsFollowAnswers, PaymentId
      <3> QED
        BY <2>1, <3>1, <1>ok
    <2>2. CASE Receive(r)
      <3>1. PICK p \in PaymentId, a \in Amount \cup {0} : ReadForRefund(r, p, a)
        BY <1>0, <1>1, <2>2 DEF Receive, ReceiveRecord, ReceiveCheckout, AccountPayment, Goto
      <3>2. arg'[r].of = p /\ pc[p[1]] = "ok" /\ p[1] \in Req
        BY <1>0, <3>1 DEF ReadForRefund, Asks, PaymentId
      <3> QED
        BY <3>2, <1>ok
    <2>3. CASE Step(r)
      BY <1>0, <1>1, <2>3 DEF Step, ReadForRecord, CreatePayment, SettleRecorded, MarkFailed,
                              ReduceBalance, ReadForCheckout, CheckoutCommit, RefundCommit, Goto
    <2> QED
      BY <2>1, <2>2, <2>3, OwnSteps
  <1>2. ASSUME NEW r \in Req, pc'[r] \in {"settle", "fail"}
        PROVE  payment'[arg'[r].of].status = "completed"
    <2>1. CASE CreatePayment(r)
      <3>1. /\ payment' = [payment EXCEPT ![arg[r].of] = NewPayment(r, arg[r].asked)]
            /\ arg[r].asked = "completed" /\ arg' = arg
        BY <1>0, <1>2, <2>1 DEF CreatePayment, Goto
      <3> QED
        BY <1>0, <3>1, AskType DEF NewPayment
    <2>2. CASE ~CreatePayment(r)
      <3>1. pc[r] \in {"settle", "fail"} /\ arg'[r] = arg[r]
        <4>1. ~Receive(r)
          BY <1>0, <1>2 DEF Receive, ReceiveRecord, ReceiveCheckout, ReadForRefund,
                            AccountPayment, Goto
        <4>2. Step(r) => SettleRecorded(r)
          BY <1>0, <1>2, <2>2 DEF Step, ReadForRecord, MarkFailed, ReduceBalance,
                                  ReadForCheckout, CheckoutCommit, RefundCommit, Goto
        <4> QED
          BY <1>2, <4>1, <4>2, OwnSteps DEF SettleRecorded, At
      <3>2. /\ payment[arg[r].of].status = "completed"
            /\ arg[r].of = <<r, arg[r].inv>> /\ arg[r].of \in PaymentId
        BY <3>1, AskType DEF RefundsFollowAnswers, RequestsFit
      <3>3. CASE UNCHANGED payment
        BY <3>1, <3>2, <3>3
      <3>4. ASSUME NEW s \in Req, CreatePayment(s) \/ CheckoutCommit(s) \/ MarkFailed(s)
            PROVE  payment'[arg[r].of] = payment[arg[r].of]
        <4>1. s # r
          BY <1>0, <1>2, <3>1, <3>4 DEF CreatePayment, CheckoutCommit, MarkFailed, At, Goto
        <4>2. arg[s].of = <<s, arg[s].inv>>
          BY <3>4 DEF CreatePayment, CheckoutCommit, MarkFailed, At, RequestsFit
        <4>3. MarkFailed(s) => payment' = [payment EXCEPT ![arg[s].of].status = "failed"]
          BY DEF MarkFailed
        <4>4. MarkFailed(s) => payment'[arg[r].of] = payment[arg[r].of]
          BY <1>0, <3>2, <4>1, <4>2, <4>3
        <4> QED
          BY <1>0, <3>2, <3>4, <4>1, <4>2, <4>4 DEF CreatePayment, CheckoutCommit
      <3>5. ASSUME NEW s \in Req, RefundCommit(s)
            PROVE  payment'[arg[r].of] = payment[arg[r].of]
        <4>1. arg[s].of # arg[r].of
          BY <3>1, <3>2, <3>5 DEF RefundCommit, Claimable, At, RefundsFollowAnswers
        <4> QED
          BY <1>0, <3>2, <3>5, <4>1 DEF RefundCommit, Claimable
      <3>6. ASSUME NEW s \in Req, NEW a \in Amount, AccountPayment(s, a)
            PROVE  payment'[arg[r].of] = payment[arg[r].of]
        <4>1. s # r
          BY <3>1, <3>6 DEF AccountPayment, At
        <4> QED
          BY <3>2, <3>6, <4>1, AccountCases DEF Spread
      <3> QED
        BY <3>1, <3>2, <3>3, <3>4, <3>5, <3>6, PaymentWriters
    <2> QED
      BY <2>1, <2>2
  <1> QED
    BY <1>1, <1>2 DEF RefundsFollowAnswers

LEMMA ForwardStep ==
  ASSUME IInv, NotYetMade, RefundsFollowAnswers, [Next]_vars, NEW p \in PaymentId
  PROVE  /\ payment'[p].refunded >= payment[p].refunded
         /\ <<payment[p].status, payment'[p].status>> \in
              {<<"none", "pending">>, <<"none", "completed">>, <<"completed", "refunded">>,
               <<"completed", "failed">>} \cup {<<s, s>> : s \in PaymentStatus}
  <1> DEFINE Forward(old, new) ==
        /\ new.refunded >= old.refunded
        /\ \/ new.status = old.status
           \/ old.status = "none" /\ new.status \in {"pending", "completed"}
           \/ old.status = "completed" /\ new.status \in {"refunded", "failed"}
  <1> USE DEF IInv
  <1>0. /\ payment \in [PaymentId -> PaymentRow] /\ payment[p] \in PaymentRow
        /\ pc \in [Req -> Where] /\ arg \in [Req -> Ask]
    BY DEF TypeOK
  <1>1. CASE payment'[p] = payment[p]
    BY <1>0, <1>1 DEF PaymentRow
  <1>2. ASSUME NEW r \in Req, CreatePayment(r) PROVE Forward(payment[p], payment'[p])
    <2>1. CASE payment' = [payment EXCEPT ![arg[r].of] = NewPayment(r, arg[r].asked)]
      <3>1. payment[arg[r].of] = NoPayment /\ arg[r].asked \in {"completed", "pending"}
        <4>1. pc[r] = "create"
          BY <1>2 DEF CreatePayment, At
        <4>2. /\ arg[r].of = <<r, arg[r].inv>> /\ arg[r].inv \in Invoice
              /\ arg[r].asked \in {"completed", "pending"}
          BY <4>1, AskType DEF RequestsFit
        <4> QED
          BY <4>1, <4>2 DEF NotYetMade
      <3>2. Forward(NoPayment, NewPayment(r, arg[r].asked))
        BY <3>1 DEF NoPayment, NewPayment
      <3> QED
        BY <1>0, <1>1, <2>1, <3>1, <3>2
    <2> QED
      BY <1>1, <1>2, <2>1 DEF CreatePayment
  <1>3. ASSUME NEW r \in Req, CheckoutCommit(r) PROVE Forward(payment[p], payment'[p])
    <2>1. CASE payment' = [payment EXCEPT ![arg[r].of] = NewPayment(r, "completed")]
      <3>1. payment[arg[r].of] = NoPayment
        <4>1. pc[r] = "commit"
          BY <1>3 DEF CheckoutCommit, At
        <4>2. arg[r].of = <<r, arg[r].inv>> /\ arg[r].inv \in Invoice
          BY <4>1, AskType DEF RequestsFit
        <4> QED
          BY <4>1, <4>2 DEF NotYetMade
      <3>2. Forward(NoPayment, NewPayment(r, "completed"))
        BY DEF NoPayment, NewPayment
      <3> QED
        BY <1>0, <1>1, <2>1, <3>1, <3>2
    <2> QED
      BY <1>1, <1>3, <2>1 DEF CheckoutCommit
  <1>4. ASSUME NEW r \in Req, MarkFailed(r) PROVE Forward(payment[p], payment'[p])
    <2>1. /\ payment' = [payment EXCEPT ![arg[r].of].status = "failed"]
          /\ payment[arg[r].of].status = "completed"
      BY <1>4 DEF MarkFailed, At, RefundsFollowAnswers
    <2>2. CASE p = arg[r].of
      <3>1. payment'[p].status = "failed" /\ payment'[p].refunded = payment[p].refunded
        BY <1>0, <2>1, <2>2 DEF PaymentRow
      <3> QED
        BY <1>0, <2>1, <2>2, <3>1 DEF PaymentRow
    <2>3. CASE p # arg[r].of
      BY <1>0, <1>1, <2>1, <2>3
    <2> QED
      BY <2>2, <2>3
  <1>5. ASSUME NEW r \in Req, RefundCommit(r) PROVE Forward(payment[p], payment'[p])
    <2>1. CASE /\ payment[arg[r].of].status = "completed"
               /\ payment' = [payment EXCEPT ![arg[r].of] = GiveBack(arg[r].of, arg[r].amount)]
      <3>1. Forward(payment[arg[r].of], GiveBack(arg[r].of, arg[r].amount))
        <4>1. payment[arg[r].of].refunded \in Nat /\ arg[r].amount \in Nat
          BY <1>0, AskType DEF PaymentRow
        <4> QED
          BY <2>1, <4>1 DEF GiveBack
      <3> QED
        BY <1>0, <1>1, <2>1, <3>1, AskType
    <2> QED
      BY <1>1, <1>5, <2>1 DEF RefundCommit, Claimable
  <1>6. ASSUME NEW r \in Req, NEW a \in Amount, AccountPayment(r, a)
        PROVE  Forward(payment[p], payment'[p])
    <2>1. ASSUME NEW split \in [Invoice -> 0..a], Spread(r, a, split)
          PROVE  Forward(payment[p], payment'[p])
      <3>1. CASE p[1] = r /\ split[p[2]] > 0
        <4>1. p = <<r, p[2]>> /\ p[2] \in Invoice
          BY <3>1 DEF PaymentId
        <4>2. payment[p] = NoPayment
          BY <1>6, <4>1 DEF AccountPayment, At, NotYetMade
        <4>3. payment'[p].status = "completed" /\ payment'[p].refunded = 0
          BY <2>1, <3>1 DEF Spread
        <4> QED
          BY <4>2, <4>3 DEF NoPayment
      <3> QED
        BY <1>1, <2>1, <3>1 DEF Spread
    <2> QED
      BY <1>1, <1>6, <2>1, AccountCases
  <1>7. Forward(payment[p], payment'[p])
    BY <1>1, <1>2, <1>3, <1>4, <1>5, <1>6, PaymentWriters
  <1> QED
    BY <1>0, <1>7 DEF PaymentRow

\* When users wait for an answer before they refund, a payment's life only goes
\* forward, its refunds only grow, and no invoice forgets a payment: in
\* particular recordPayment's plain save() of "failed" hits no refunded payment.
THEOREM PaymentsOnlyGoForward ==
  ASSUME RefundsWait
  PROVE  Spec => PaymentsGoForward
  <1> USE DEF Waiting
  <1>1. Init => Waiting
    <2>1. Init => NotYetMade /\ RefundsFollowAnswers
      BY DEF Init, NotYetMade, RefundsFollowAnswers, PaymentId
    <2> QED
      BY <2>1, InitIInv
  <1>2. Waiting /\ [Next]_vars => Waiting'
    <2> QED
      BY IInvStep, NotYetMadeStep, RefundsFollowStep
  <1>3. Waiting /\ [Next]_vars =>
          [/\ \A p \in PaymentId :
                /\ payment'[p].refunded >= payment[p].refunded
                /\ <<payment[p].status, payment'[p].status>> \in
                     {<<"none", "pending">>, <<"none", "completed">>,
                      <<"completed", "refunded">>, <<"completed", "failed">>}
                       \cup {<<s, s>> : s \in PaymentStatus}
           /\ \A i \in Invoice : invoice[i].history \subseteq invoice'[i].history]_vars
    BY ForwardStep, HistoryGrows
  <1> HIDE DEF Waiting
  <1> QED
    BY <1>1, <1>2, <1>3, PTL DEF Spec, PaymentsGoForward
-----------------------------------------------------------------------------
(* The inductive invariant when users wait for an answer before they refund *)

\* A checkout is paid on the spot.
CheckoutsComplete == \A r \in Req : arg[r].op = "checkout" => arg[r].asked = "completed"

\* A payment was made by a request that asked for it, or by an account payment,
\* which settles it at once; it stays pending if that was asked for.
Made ==
  \A p \in PaymentId : payment[p].status # "none" =>
    \/ /\ arg[p[1]].op \in {"record", "checkout"} /\ p = arg[p[1]].of
       /\ payment[p].status # "pending" => arg[p[1]].asked = "completed"
    \/ arg[p[1]].op = "account" /\ p \in invoice[p[2]].history

\* A payment between its two writes is worth what the invoice is about to take.
Charged ==
  \A r \in Req : pc[r] = "settle" =>
    payment[arg[r].of].amount = arg[r].amount /\ payment[arg[r].of].refunded = 0

\* What an invoice says was paid is what its payment history brought in, net of
\* refunds.
Remain == [p \in PaymentId |-> Refundable(p)]
PaidIsRemain == \A i \in Invoice : invoice[i].paid = SumFunctionOnSet(Remain, invoice[i].history)

RInv == Waiting /\ CheckoutsComplete /\ Made /\ Charged /\ PaidIsRemain
-----------------------------------------------------------------------------
(* Every step brings money in, gives some back, or moves none *)

\* What the books show of a payment stays as it is.
Rests ==
  /\ UNCHANGED invoice
  /\ \A p \in PaymentId :
       /\ payment'[p].refunded = payment[p].refunded
       /\ p \in invoice[p[2]].history => payment'[p].amount = payment[p].amount

\* Request r brings split[i] for each invoice i, in a payment that i did not know.
Gains(r, split) ==
  /\ \A i \in Invoice :
       /\ split[i] <= invoice[i].due
       /\ invoice'[i].paid = invoice[i].paid + split[i]
       /\ invoice'[i].due = invoice[i].due - split[i]
       /\ split[i] = 0 => invoice'[i] = invoice[i]
       /\ split[i] > 0 => /\ invoice[i].status \in Payable
                          /\ invoice'[i].history = invoice[i].history \cup {<<r, i>>}
                          /\ <<r, i>> \notin invoice[i].history
                          /\ payment'[<<r, i>>].amount = split[i]
                          /\ payment[<<r, i>>].refunded = 0
  /\ \A p \in PaymentId :
       /\ payment'[p].refunded = payment[p].refunded
       /\ p \in invoice[p[2]].history => payment'[p].amount = payment[p].amount

\* a of what payment p brought in goes back.
Returns(p, a) ==
  /\ p \in invoice[p[2]].history
  /\ a <= invoice[p[2]].paid
  /\ payment[p].refunded + a <= payment[p].amount
  /\ \A q \in PaymentId : payment'[q].amount = payment[q].amount
  /\ \A q \in PaymentId \ {p} : payment'[q].refunded = payment[q].refunded
  /\ payment'[p].refunded = payment[p].refunded + a
  /\ \A i \in Invoice : invoice'[i].history = invoice[i].history
  /\ \A i \in Invoice \ {p[2]} : invoice'[i] = invoice[i]
  /\ invoice'[p[2]].paid = invoice[p[2]].paid - a
  /\ invoice'[p[2]].due = invoice[p[2]].due + a
  /\ invoice'[p[2]].status \in Payable

LEMMA SettledFields ==
  ASSUME TypeOK, NEW i \in Invoice, Whole(i), NEW a \in Nat, NEW p \in PaymentId,
         Settleable(i, a)
  PROVE  /\ Settled(i, a, p).paid = invoice[i].paid + a
         /\ Settled(i, a, p).due = invoice[i].due - a
         /\ Settled(i, a, p).history = invoice[i].history \cup {p}
  <1>1. invoice[i] \in InvoiceRow /\ Total[i] \in Nat
    BY SettlementAssumption DEF TypeOK
  <1>2. /\ invoice[i].paid \in Nat /\ invoice[i].due \in Nat /\ a <= invoice[i].due
        /\ invoice[i].paid + invoice[i].due = Total[i]
    BY <1>1 DEF InvoiceRow, Settleable, Whole
  <1>3. /\ Total[i] - (invoice[i].paid + a) = invoice[i].due - a
        /\ invoice[i].due - a >= 0
    BY <1>2
  <1>4. (IF Total[i] - (invoice[i].paid + a) > 0 THEN Total[i] - (invoice[i].paid + a) ELSE 0)
          = invoice[i].due - a
    BY <1>2, <1>3
  <1> QED
    BY <1>4 DEF Settled

LEMMA ReopenedFields ==
  ASSUME TypeOK, WithinTotal, NEW i \in Invoice, NEW a \in Nat, a <= invoice[i].paid
  PROVE  /\ Reopened(i, a).paid = invoice[i].paid - a
         /\ Reopened(i, a).due = invoice[i].due + a
         /\ Reopened(i, a).history = invoice[i].history
         /\ Reopened(i, a).status \in Payable
  <1>1. invoice[i] \in InvoiceRow /\ Total[i] \in Nat
    BY SettlementAssumption DEF TypeOK
  <1>2. /\ invoice[i].paid \in Nat /\ invoice[i].due \in Nat
        /\ invoice[i].paid + invoice[i].due <= Total[i]
    BY <1>1 DEF InvoiceRow, WithinTotal
  <1>3. /\ (IF invoice[i].paid > a THEN invoice[i].paid - a ELSE 0) = invoice[i].paid - a
        /\ (IF invoice[i].due + a < Total[i] THEN invoice[i].due + a ELSE Total[i])
             = invoice[i].due + a
    BY <1>1, <1>2
  <1> QED
    BY <1>3 DEF Reopened, Payable

\* What one request brings for the invoice it is about.
Single(r) == [i \in Invoice |-> IF i = arg[r].inv THEN arg[r].amount ELSE 0]

LEMMA GainsSingle ==
  ASSUME TypeOK, PaysWhole, NEW r \in Req, arg[r].amount > 0,
         arg[r].of = <<r, arg[r].inv>>, arg[r].of \notin invoice[arg[r].inv].history,
         Settleable(arg[r].inv, arg[r].amount),
         invoice' = [invoice EXCEPT
           ![arg[r].inv] = Settled(arg[r].inv, arg[r].amount, arg[r].of)],
         payment'[arg[r].of].amount = arg[r].amount, payment[arg[r].of].refunded = 0,
         \A p \in PaymentId :
           /\ payment'[p].refunded = payment[p].refunded
           /\ p \in invoice[p[2]].history => payment'[p].amount = payment[p].amount
  PROVE  Single(r) \in [Invoice -> Nat] /\ Gains(r, Single(r))
  <1>1. /\ arg[r].inv \in Invoice /\ arg[r].amount \in Nat /\ arg[r].of \in PaymentId
        /\ invoice \in [Invoice -> InvoiceRow]
    BY AskType DEF TypeOK
  <1>2. Single(r) \in [Invoice -> Nat]
    BY <1>1 DEF Single
  <1>3. ASSUME NEW i \in Invoice, i # arg[r].inv
        PROVE  invoice'[i] = invoice[i] /\ Single(r)[i] = 0
    BY <1>1, <1>3 DEF Single
  <1>4. /\ invoice'[arg[r].inv] = Settled(arg[r].inv, arg[r].amount, arg[r].of)
        /\ Single(r)[arg[r].inv] = arg[r].amount
    BY <1>1 DEF Single
  <1>5. /\ invoice'[arg[r].inv].paid = invoice[arg[r].inv].paid + arg[r].amount
        /\ invoice'[arg[r].inv].due = invoice[arg[r].inv].due - arg[r].amount
        /\ invoice'[arg[r].inv].history = invoice[arg[r].inv].history \cup {arg[r].of}
    <2>1. Whole(arg[r].inv)
      <3>1. invoice'[arg[r].inv].paid = invoice[arg[r].inv].paid + arg[r].amount
        BY <1>4 DEF Settled
      <3>2. invoice[arg[r].inv].paid \in Nat
        BY <1>1 DEF InvoiceRow
      <3> QED
        BY <1>1, <3>1, <3>2 DEF PaysWhole
    <2> QED
      BY <1>1, <1>4, <2>1, SettledFields
  <1>6. arg[r].amount <= invoice[arg[r].inv].due /\ invoice[arg[r].inv].status \in Payable
    BY <1>1 DEF Settleable, InvoiceRow
  <1>7. \A i \in Invoice : invoice[i].paid \in Nat /\ invoice[i].due \in Nat
    BY <1>1 DEF InvoiceRow
  <1>8. ASSUME NEW i \in Invoice
        PROVE  /\ Single(r)[i] <= invoice[i].due
               /\ invoice'[i].paid = invoice[i].paid + Single(r)[i]
               /\ invoice'[i].due = invoice[i].due - Single(r)[i]
               /\ Single(r)[i] = 0 => invoice'[i] = invoice[i]
               /\ Single(r)[i] > 0 =>
                    /\ invoice[i].status \in Payable
                    /\ invoice'[i].history = invoice[i].history \cup {<<r, i>>}
                    /\ <<r, i>> \notin invoice[i].history
                    /\ payment'[<<r, i>>].amount = Single(r)[i]
                    /\ payment[<<r, i>>].refunded = 0
    <2>1. CASE i = arg[r].inv
      <3>1. Single(r)[i] = arg[r].amount /\ <<r, i>> = arg[r].of /\ Single(r)[i] # 0
        BY <1>1, <1>4, <2>1
      <3> QED
        BY <1>5, <1>6, <2>1, <3>1
    <2>2. CASE i # arg[r].inv
      BY <1>3, <1>7, <2>2
    <2> QED
      BY <2>1, <2>2
  <1> QED
    BY <1>2, <1>8 DEF Gains

LEMMA CreateRests ==
  ASSUME Waiting, NEW r \in Req, CreatePayment(r) PROVE Rests
  <1>1. /\ arg[r].of = <<r, arg[r].inv>> /\ arg[r].of \in PaymentId /\ arg[r].inv \in Invoice
        /\ payment \in [PaymentId -> PaymentRow]
    BY AskType DEF CreatePayment, At, Waiting, IInv, RequestsFit, TypeOK
  <1>2. payment[arg[r].of] = NoPayment
    BY <1>1 DEF CreatePayment, At, Waiting, NotYetMade
  <1>3. arg[r].of \notin invoice[arg[r].inv].history
    BY <1>1, <1>2 DEF Waiting, IInv, HistoryIsSettled, NoPayment
  <1>4. /\ invoice' = invoice
        /\ \/ payment' = payment
           \/ payment' = [payment EXCEPT ![arg[r].of] = NewPayment(r, arg[r].asked)]
    BY DEF CreatePayment
  <1>5. payment[arg[r].of].refunded = 0 /\ NewPayment(r, arg[r].asked).refunded = 0
    BY <1>2 DEF NoPayment, NewPayment
  <1>6. \A p \in PaymentId : p # arg[r].of => payment'[p] = payment[p]
    BY <1>1, <1>4
  <1>7. payment'[arg[r].of].refunded = payment[arg[r].of].refunded
    BY <1>1, <1>4, <1>5
  <1>8. arg[r].of[2] = arg[r].inv
    BY <1>1
  <1> QED
    BY <1>3, <1>4, <1>6, <1>7, <1>8 DEF Rests

LEMMA FailRests ==
  ASSUME Waiting, NEW r \in Req, MarkFailed(r) PROVE Rests
  <1>1. payment \in [PaymentId -> PaymentRow] /\ arg[r].of \in PaymentId
    BY AskType DEF Waiting, IInv, TypeOK
  <1>2. payment' = [payment EXCEPT ![arg[r].of].status = "failed"] /\ invoice' = invoice
    BY DEF MarkFailed
  <1>3. \A p \in PaymentId : payment'[p].refunded = payment[p].refunded
                              /\ payment'[p].amount = payment[p].amount
    BY <1>1, <1>2 DEF PaymentRow
  <1> QED
    BY <1>2, <1>3 DEF Rests

LEMMA SettleGains ==
  ASSUME Waiting, Charged, PaysWhole, NEW r \in Req, SettleRecorded(r)
  PROVE  \/ Rests /\ Goto(r, "fail")
         \/ Single(r) \in [Invoice -> Nat] /\ Gains(r, Single(r)) /\ Goto(r, "reduce")
  <1>1. CASE ~Settleable(arg[r].inv, arg[r].amount)
    BY <1>1 DEF SettleRecorded, Rests
  <1>2. CASE Settleable(arg[r].inv, arg[r].amount)
    <2>1. TypeOK /\ pc[r] = "settle"
      BY DEF Waiting, IInv, SettleRecorded, At
    <2>2. arg[r].amount > 0 /\ arg[r].of = <<r, arg[r].inv>>
      BY <2>1 DEF Waiting, IInv, RequestsFit
    <2>3. arg[r].of \notin invoice[arg[r].inv].history
      BY <2>1, <2>2, AskType DEF Waiting, IInv, HistoryIsSettled
    <2>4. /\ invoice' = [invoice EXCEPT
               ![arg[r].inv] = Settled(arg[r].inv, arg[r].amount, arg[r].of)]
          /\ payment' = payment /\ Goto(r, "reduce")
      BY <1>2 DEF SettleRecorded
    <2>5. payment[arg[r].of].amount = arg[r].amount /\ payment[arg[r].of].refunded = 0
      BY <2>1 DEF Charged
    <2>6. Single(r) \in [Invoice -> Nat] /\ Gains(r, Single(r))
      BY <1>2, <2>1, <2>2, <2>3, <2>4, <2>5, GainsSingle
    <2> QED
      BY <2>4, <2>6
  <1> QED
    BY <1>1, <1>2

LEMMA CheckoutGains ==
  ASSUME Waiting, PaysWhole, NEW r \in Req, CheckoutCommit(r)
  PROVE  \/ Rests /\ balance' = balance
         \/ /\ Single(r) \in [Invoice -> Nat] /\ Gains(r, Single(r))
            /\ balance' = balance - arg[r].amount
  <1>1. CASE KeyTaken(arg[r].key) \/ ~Settleable(arg[r].inv, arg[r].amount)
    BY <1>1 DEF CheckoutCommit, Rests
  <1>2. CASE ~(KeyTaken(arg[r].key) \/ ~Settleable(arg[r].inv, arg[r].amount))
    <2>1. /\ TypeOK /\ pc[r] = "commit"
          /\ payment \in [PaymentId -> PaymentRow] /\ arg[r].of \in PaymentId
          /\ arg[r].inv \in Invoice
      BY AskType DEF Waiting, IInv, CheckoutCommit, At, TypeOK
    <2>2. arg[r].amount > 0 /\ arg[r].of = <<r, arg[r].inv>>
      BY <2>1 DEF Waiting, IInv, RequestsFit
    <2>3. arg[r].of \notin invoice[arg[r].inv].history
      BY <2>1, <2>2 DEF Waiting, IInv, HistoryIsSettled
    <2>4. /\ invoice' = [invoice EXCEPT
               ![arg[r].inv] = Settled(arg[r].inv, arg[r].amount, arg[r].of)]
          /\ payment' = [payment EXCEPT ![arg[r].of] = NewPayment(r, "completed")]
          /\ balance' = balance - arg[r].amount
      BY <1>2 DEF CheckoutCommit
    <2>5. payment[arg[r].of] = NoPayment
      BY <2>1, <2>2 DEF Waiting, NotYetMade
    <2>6. /\ payment[arg[r].of].refunded = 0 /\ NewPayment(r, "completed").refunded = 0
          /\ NewPayment(r, "completed").amount = arg[r].amount
      BY <2>5 DEF NoPayment, NewPayment
    <2>7. /\ payment'[arg[r].of].amount = arg[r].amount
          /\ payment'[arg[r].of].refunded = payment[arg[r].of].refunded
          /\ \A p \in PaymentId : p # arg[r].of => payment'[p] = payment[p]
      BY <2>1, <2>4, <2>6
    <2>8. arg[r].of[2] = arg[r].inv
      BY <2>2
    <2>9. \A p \in PaymentId :
            /\ payment'[p].refunded = payment[p].refunded
            /\ p \in invoice[p[2]].history => payment'[p].amount = payment[p].amount
      BY <2>3, <2>7, <2>8
    <2>10. Single(r) \in [Invoice -> Nat] /\ Gains(r, Single(r))
      BY <1>2, <2>1, <2>2, <2>3, <2>4, <2>6, <2>7, <2>9, GainsSingle
    <2> QED
      BY <2>4, <2>10
  <1> QED
    BY <1>1, <1>2

LEMMA AccountGains ==
  ASSUME Waiting, PaysWhole, NEW r \in Req, NEW a \in Amount, AccountPayment(r, a)
  PROVE  \/ Rests /\ balance' = balance /\ Goto(r, "rejected")
         \/ \E split \in [Invoice -> Nat] : Gains(r, split) /\ Spread(r, a, split)
  <1>1. CASE UNCHANGED <<invoice, payment, balance>> /\ Goto(r, "rejected")
    BY <1>1 DEF Rests
  <1>2. ASSUME NEW split \in [Invoice -> 0..a], Spread(r, a, split)
        PROVE  \E give \in [Invoice -> Nat] : Gains(r, give) /\ Spread(r, a, give)
    <2>1. /\ TypeOK /\ pc[r] = "idle"
          /\ payment \in [PaymentId -> PaymentRow] /\ invoice \in [Invoice -> InvoiceRow]
          /\ split \in [Invoice -> Nat]
      BY <1>2, SettlementAssumption DEF Waiting, IInv, AccountPayment, At, TypeOK
    <2>2. ASSUME NEW i \in Invoice
          PROVE  /\ payment[<<r, i>>] = NoPayment /\ <<r, i>> \notin invoice[i].history
                 /\ <<r, i>> \in PaymentId
      BY <2>1 DEF Waiting, NotYetMade, IInv, HistoryIsSettled, PaymentId
    <2>3. ASSUME NEW i \in Invoice
          PROVE  /\ split[i] <= invoice[i].due
                 /\ invoice'[i].paid = invoice[i].paid + split[i]
                 /\ invoice'[i].due = invoice[i].due - split[i]
                 /\ split[i] = 0 => invoice'[i] = invoice[i]
                 /\ split[i] > 0 => /\ invoice[i].status \in Payable
                                    /\ invoice'[i].history = invoice[i].history \cup {<<r, i>>}
                                    /\ <<r, i>> \notin invoice[i].history
                                    /\ payment'[<<r, i>>].amount = split[i]
                                    /\ payment[<<r, i>>].refunded = 0
      <3>1. /\ invoice[i].paid \in Nat /\ invoice[i].due \in Nat /\ split[i] \in Nat
            /\ invoice'[i] = IF split[i] > 0 THEN Settled(i, split[i], <<r, i>>) ELSE invoice[i]
        BY <1>2, <2>1 DEF Spread, InvoiceRow
      <3>2. CASE split[i] > 0
        <4>1. Settleable(i, split[i])
          BY <1>2, <3>2 DEF Spread
        <4>2. /\ invoice'[i].paid = invoice[i].paid + split[i]
              /\ invoice'[i].due = invoice[i].due - split[i]
              /\ invoice'[i].history = invoice[i].history \cup {<<r, i>>}
          <5>1. invoice'[i].paid = invoice[i].paid + split[i]
            BY <3>1, <3>2 DEF Settled
          <5>2. Whole(i)
            BY <3>1, <3>2, <5>1 DEF PaysWhole
          <5> QED
            BY <2>1, <2>2, <3>1, <3>2, <4>1, <5>2, SettledFields
        <4>3. payment'[<<r, i>>].amount = split[i]
          BY <1>2, <2>2, <3>2 DEF Spread
        <4> QED
          BY <2>2, <3>1, <3>2, <4>1, <4>2, <4>3 DEF Settleable, NoPayment
      <3>3. CASE split[i] = 0
        BY <3>1, <3>3
      <3> QED
        BY <3>1, <3>2, <3>3
    <2>4. ASSUME NEW p \in PaymentId
          PROVE  /\ payment'[p].refunded = payment[p].refunded
                 /\ p \in invoice[p[2]].history => payment'[p].amount = payment[p].amount
      <3>1. p[2] \in Invoice /\ p = <<p[1], p[2]>>
        BY DEF PaymentId
      <3>2. CASE p[1] = r /\ split[p[2]] > 0
        <4>1. payment[p] = NoPayment /\ p \notin invoice[p[2]].history
          BY <2>2, <3>1, <3>2
        <4>2. payment'[p].refunded = 0
          BY <1>2, <3>2 DEF Spread
        <4> QED
          BY <4>1, <4>2 DEF NoPayment
      <3>3. CASE ~(p[1] = r /\ split[p[2]] > 0)
        BY <1>2, <3>3 DEF Spread
      <3> QED
        BY <3>2, <3>3
    <2>5. Gains(r, split)
      BY <2>3, <2>4 DEF Gains
    <2> QED
      BY <1>2, <2>1, <2>5
  <1> QED
    BY <1>1, <1>2, AccountCases DEF Waiting, IInv

\* There are finitely many payments.
LEMMA PaymentsFinite ==
  IsFiniteSet(PaymentId) /\ IsFiniteSet(Invoice) /\ IsFiniteSet(Req)
  <1>1. IsFiniteSet(Invoice)
    BY SettlementAssumption, FS_Interval DEF Invoice
  <1> QED
    BY <1>1, SettlementAssumption, FS_Product DEF PaymentId

LEMMA RemainType ==
  ASSUME TypeOK, RefundWithinPayment
  PROVE  Remain \in [PaymentId -> Nat]
  <1>1. ASSUME NEW p \in PaymentId PROVE Refundable(p) \in Nat
    <2>1. payment[p] \in PaymentRow /\ payment[p].refunded <= payment[p].amount
      BY DEF TypeOK, RefundWithinPayment
    <2> QED
      BY <2>1 DEF PaymentRow, Refundable
  <1> QED
    BY <1>1 DEF Remain

LEMMA RemainWithinPaid ==
  ASSUME TypeOK, RefundWithinPayment, PaidIsRemain,
         NEW i \in Invoice, NEW p \in invoice[i].history
  PROVE  Refundable(p) <= invoice[i].paid
  <1>1. invoice[i].history \subseteq PaymentId
    BY DEF TypeOK, InvoiceRow
  <1>2. IsFiniteSet(invoice[i].history)
    BY <1>1, PaymentsFinite, FS_Subset
  <1>3. Remain[p] <= SumFunctionOnSet(Remain, invoice[i].history)
    BY <1>1, <1>2, RemainType, SumNat
  <1> QED
    BY <1>1, <1>3 DEF PaidIsRemain, Remain

\* Under RefundsWait, a payment that can be claimed was settled, and what is left
\* of it is still in its invoice.
LEMMA RefundReturns ==
  ASSUME RInv, WithinTotal, NEW r \in Req, RefundCommit(r)
  PROVE  \/ Rests /\ balance' = balance
         \/ /\ arg[r].of \in PaymentId /\ arg[r].amount \in Nat \ {0}
            /\ Returns(arg[r].of, arg[r].amount)
            /\ balance' = balance + arg[r].amount
  <1> DEFINE p == arg[r].of
             a == arg[r].amount
             i == arg[r].inv
  <1>1. CASE ~Claimable(p, a)
    BY <1>1 DEF RefundCommit, Rests
  <1>2. CASE Claimable(p, a)
    <2>1. /\ TypeOK /\ pc[r] = "claim"
          /\ payment \in [PaymentId -> PaymentRow] /\ invoice \in [Invoice -> InvoiceRow]
          /\ p \in PaymentId /\ i \in Invoice /\ a \in Nat
      BY AskType DEF RInv, Waiting, IInv, RefundCommit, At, TypeOK
    <2>2. a > 0 /\ i = p[2] /\ p[1] \in Req
      BY <2>1 DEF RInv, Waiting, IInv, RequestsFit, PaymentId
    <2>3. /\ payment[p].amount \in Nat /\ payment[p].refunded \in Nat
          /\ payment[p].refunded + a <= payment[p].amount /\ payment[p].status = "completed"
      BY <1>2, <2>1 DEF Claimable, PaymentRow
    <2>4. pc[p[1]] = "ok"
      BY <2>1 DEF RInv, Waiting, RefundsFollowAnswers
    <2>5. p \in invoice[i].history
      <3>1. CASE arg[p[1]].op = "account" /\ p \in invoice[p[2]].history
        BY <2>2, <3>1
      <3>2. CASE /\ arg[p[1]].op \in {"record", "checkout"} /\ p = arg[p[1]].of
                 /\ arg[p[1]].asked = "completed"
        <4>1. arg[p[1]].of \in invoice[arg[p[1]].inv].history
          BY <2>2, <2>4, <3>2 DEF RInv, Waiting, IInv, SettledInHistory
        <4>2. p = <<p[1], arg[p[1]].inv>>
          BY <2>2, <3>2 DEF RInv, Waiting, IInv, RequestsFit
        <4> QED
          BY <2>2, <3>2, <4>1, <4>2
      <3> QED
        BY <2>1, <2>3, <3>1, <3>2 DEF RInv, Made
    <2>6. a <= invoice[i].paid
      <3>1. payment[p].amount - payment[p].refunded <= invoice[i].paid
        BY <2>1, <2>5, RemainWithinPaid DEF RInv, Waiting, IInv, Refundable
      <3>2. invoice[i].paid \in Nat
        BY <2>1 DEF InvoiceRow
      <3> QED
        BY <2>1, <2>3, <3>1, <3>2
    <2>7. /\ payment' = [payment EXCEPT ![p] = GiveBack(p, a)]
          /\ invoice' = [invoice EXCEPT ![i] = Reopened(i, a)]
          /\ balance' = balance + a
      BY <1>2 DEF RefundCommit
    <2>8. /\ payment'[p].amount = payment[p].amount
          /\ payment'[p].refunded = payment[p].refunded + a
          /\ \A q \in PaymentId \ {p} : payment'[q] = payment[q]
      BY <2>1, <2>7 DEF GiveBack
    <2>9. /\ invoice'[i].paid = invoice[i].paid - a
          /\ invoice'[i].due = invoice[i].due + a
          /\ invoice'[i].history = invoice[i].history /\ invoice'[i].status \in Payable
          /\ \A j \in Invoice \ {i} : invoice'[j] = invoice[j]
      BY <2>1, <2>6, <2>7, ReopenedFields
    <2> HIDE DEF p, a, i
    <2>10. Returns(p, a)
      BY <2>2, <2>3, <2>5, <2>6, <2>8, <2>9 DEF Returns
    <2> QED
      BY <2>1, <2>2, <2>7, <2>10 DEF p, a, i
  <1> QED
    BY <1>1, <1>2 DEF p, a

LEMMA StepMoves ==
  ASSUME RInv, WithinTotal, PaysWhole, [Next]_vars
  PROVE  \/ Rests
         \/ \E r \in Req : \E split \in [Invoice -> Nat] : Gains(r, split)
         \/ \E p \in PaymentId : \E a \in Nat \ {0} : Returns(p, a)
  <1>1. Waiting /\ Charged
    BY DEF RInv
  <1>2. CASE UNCHANGED invoice /\ UNCHANGED payment
    BY <1>2 DEF Rests
  <1>3. CASE \E r \in Req : CreatePayment(r) \/ MarkFailed(r)
    BY <1>1, <1>3, CreateRests, FailRests
  <1>4. CASE \E r \in Req : \/ SettleRecorded(r) \/ CheckoutCommit(r)
                            \/ \E a \in Amount : AccountPayment(r, a)
    BY <1>1, <1>4, SettleGains, CheckoutGains, AccountGains
  <1>5. CASE \E r \in Req : RefundCommit(r)
    BY <1>5, RefundReturns
  <1> QED
    <2>1. ASSUME NEW r \in Req, Receive(r)
          PROVE  \/ UNCHANGED invoice /\ UNCHANGED payment
                 \/ \E a \in Amount : AccountPayment(r, a)
      BY <2>1 DEF Receive, ReceiveRecord, ReceiveCheckout, ReadForRefund
    <2>2. ASSUME NEW r \in Req, Step(r)
          PROVE  \/ UNCHANGED invoice /\ UNCHANGED payment
                 \/ CreatePayment(r) \/ MarkFailed(r) \/ SettleRecorded(r)
                 \/ CheckoutCommit(r) \/ RefundCommit(r)
      BY <2>2 DEF Step, ReadForRecord, ReduceBalance, ReadForCheckout
    <2>3. ASSUME NEW r \in Req, CutOff(r) PROVE UNCHANGED invoice /\ UNCHANGED payment
      BY <2>3 DEF CutOff
    <2>4. CASE UNCHANGED vars
      BY <1>2, <2>4 DEF vars
    <2>5. CASE Next
      BY <1>2, <1>3, <1>4, <1>5, <2>1, <2>2, <2>3, <2>5 DEF Next
    <2> QED
      BY <2>4, <2>5
-----------------------------------------------------------------------------
(* The invariant holds *)

\* Once it has read what it acts on, a request asks for nothing else.
LEMMA ArgStays ==
  ASSUME TypeOK, [Next]_vars, NEW q \in Req, pc[q] \notin {"idle", "read"}
  PROVE  arg'[q] = arg[q]
  <1>1. CASE Receive(q)
    BY <1>1 DEF Receive, ReceiveRecord, ReceiveCheckout, ReadForRefund, AccountPayment, At
  <1>2. CASE Step(q)
    BY <1>2 DEF Step, ReadForRecord, CreatePayment, SettleRecorded, MarkFailed,
                ReduceBalance, ReadForCheckout, CheckoutCommit, RefundCommit, At
  <1> QED
    BY <1>1, <1>2, OwnSteps

LEMMA CheckoutsStep == TypeOK /\ CheckoutsComplete /\ [Next]_vars => CheckoutsComplete'
  <1> SUFFICES ASSUME TypeOK, CheckoutsComplete, [Next]_vars, NEW q \in Req
               PROVE  arg'[q].op = "checkout" => arg'[q].asked = "completed"
    BY DEF CheckoutsComplete
  <1>1. arg \in [Req -> Ask] /\ (arg[q].op = "checkout" => arg[q].asked = "completed")
    BY DEF TypeOK, CheckoutsComplete
  <1>2. CASE Receive(q)
    BY <1>1, <1>2 DEF Receive, ReceiveRecord, ReceiveCheckout, ReadForRefund, AccountPayment,
                      Asks
  <1>3. CASE Step(q)
    <2>1. CASE UNCHANGED arg
      BY <1>1, <2>1
    <2>2. CASE ReadForCheckout(q)
      BY <1>1, <2>2 DEF ReadForCheckout, Ask
    <2> QED
      BY <1>3, <2>1, <2>2 DEF Step, ReadForRecord, CreatePayment, SettleRecorded, MarkFailed,
                              ReduceBalance, CheckoutCommit, RefundCommit
  <1> QED
    BY <1>1, <1>2, <1>3, OwnSteps

\* Only a request that is about to make a payment makes one, for the amount and
\* in the state it asks for.
LEMMA AmountStays ==
  ASSUME Waiting, [Next]_vars, NEW p \in PaymentId, payment[p].status # "none"
  PROVE  /\ payment'[p].amount = payment[p].amount
         /\ payment'[p].status = "pending" <=> payment[p].status = "pending"
         /\ pc[p[1]] # "ok" => payment'[p].refunded = payment[p].refunded
  <1> USE DEF Waiting, IInv
  <1>0. /\ payment \in [PaymentId -> PaymentRow] /\ p[1] \in Req /\ p[2] \in Invoice
        /\ p = <<p[1], p[2]>>
    BY DEF TypeOK, PaymentId
  <1>1. pc[p[1]] \notin {"idle", "read", "create", "commit"}
    BY <1>0 DEF NotYetMade, NoPayment
  <1>2. CASE UNCHANGED payment
    BY <1>2
  <1>3. ASSUME NEW r \in Req, CreatePayment(r) PROVE payment'[p] = payment[p]
    <2>1. arg[r].of = <<r, arg[r].inv>> /\ p[1] # r
      BY <1>1, <1>3 DEF CreatePayment, At, RequestsFit
    <2>2. arg[r].of # p
      BY <2>1
    <2> QED
      BY <1>0, <1>3, <2>2 DEF CreatePayment
  <1>4. ASSUME NEW r \in Req, CheckoutCommit(r) PROVE payment'[p] = payment[p]
    <2>1. arg[r].of = <<r, arg[r].inv>> /\ p[1] # r
      BY <1>1, <1>4 DEF CheckoutCommit, At, RequestsFit
    <2>2. arg[r].of # p
      BY <2>1
    <2> QED
      BY <1>0, <1>4, <2>2 DEF CheckoutCommit
  <1>5. ASSUME NEW r \in Req, MarkFailed(r)
        PROVE  /\ payment'[p].amount = payment[p].amount
               /\ payment'[p].status = "pending" <=> payment[p].status = "pending"
               /\ pc[p[1]] # "ok" => payment'[p].refunded = payment[p].refunded
    <2>1. payment[arg[r].of].status = "completed"
      BY <1>5 DEF MarkFailed, At, RefundsFollowAnswers
    <2>2. payment' = [payment EXCEPT ![arg[r].of].status = "failed"]
      BY <1>5 DEF MarkFailed
    <2>3. CASE p = arg[r].of
      BY <1>0, <2>1, <2>2, <2>3 DEF PaymentRow
    <2> QED
      BY <1>0, <2>2, <2>3
  <1>6. ASSUME NEW r \in Req, RefundCommit(r)
        PROVE  /\ payment'[p].amount = payment[p].amount
               /\ payment'[p].status = "pending" <=> payment[p].status = "pending"
               /\ pc[p[1]] # "ok" => payment'[p].refunded = payment[p].refunded
    <2>1. CASE UNCHANGED payment
      BY <2>1
    <2>2. CASE /\ payment[arg[r].of].status = "completed"
               /\ payment' = [payment EXCEPT ![arg[r].of] = GiveBack(arg[r].of, arg[r].amount)]
      <3>1. pc[arg[r].of[1]] = "ok"
        BY <1>6 DEF RefundCommit, At, RefundsFollowAnswers
      <3> QED
        BY <1>0, <2>2, <3>1 DEF GiveBack
    <2> QED
      BY <1>6, <2>1, <2>2 DEF RefundCommit, Claimable
  <1>7. ASSUME NEW r \in Req, NEW a \in Amount, AccountPayment(r, a)
        PROVE  payment'[p] = payment[p]
    <2>1. p[1] # r
      BY <1>1, <1>7 DEF AccountPayment, At
    <2> QED
      BY <1>0, <1>7, <2>1, AccountCases DEF Spread
  <1> QED
    BY <1>2, <1>3, <1>4, <1>5, <1>6, <1>7, PaymentWriters

LEMMA MadeStep ==
  ASSUME Waiting, CheckoutsComplete, Made, [Next]_vars
  PROVE  Made'
  <1> USE DEF Waiting, IInv
  <1> SUFFICES ASSUME NEW p \in PaymentId, payment'[p].status # "none"
               PROVE  \/ /\ arg'[p[1]].op \in {"record", "checkout"} /\ p = arg'[p[1]].of
                         /\ payment'[p].status # "pending" => arg'[p[1]].asked = "completed"
                      \/ arg'[p[1]].op = "account" /\ p \in invoice'[p[2]].history
    BY DEF Made
  <1> DEFINE MadeNow ==
        \/ /\ arg'[p[1]].op \in {"record", "checkout"} /\ p = arg'[p[1]].of
           /\ payment'[p].status # "pending" => arg'[p[1]].asked = "completed"
        \/ arg'[p[1]].op = "account" /\ p \in invoice'[p[2]].history
  <1>0. /\ payment \in [PaymentId -> PaymentRow] /\ p[1] \in Req /\ p[2] \in Invoice
        /\ p = <<p[1], p[2]>> /\ arg \in [Req -> Ask]
    BY DEF TypeOK, PaymentId
  <1>1. CASE payment[p].status # "none"
    <2>1. pc[p[1]] \notin {"idle", "read", "create", "commit"}
      BY <1>0, <1>1 DEF NotYetMade, NoPayment
    <2>2. arg'[p[1]] = arg[p[1]]
      BY <1>0, <2>1, ArgStays
    <2>3. invoice[p[2]].history \subseteq invoice'[p[2]].history
      BY <1>0, HistoryGrows
    <2>4. payment'[p].status = "pending" <=> payment[p].status = "pending"
      BY <1>1, AmountStays
    <2> QED
      BY <1>1, <2>2, <2>3, <2>4 DEF Made
  <1>2. CASE payment[p].status = "none"
    <2>1. ASSUME NEW r \in Req, CreatePayment(r) PROVE MadeNow
      <3>1. /\ payment' = [payment EXCEPT ![arg[r].of] = NewPayment(r, arg[r].asked)]
            /\ arg' = arg
        BY <1>2, <2>1 DEF CreatePayment
      <3>2. p = arg[r].of
        BY <1>0, <1>2, <3>1
      <3>3. arg[r].op = "record" /\ arg[r].of = <<r, arg[r].inv>>
        BY <2>1 DEF CreatePayment, At, RequestsFit
      <3>4. payment'[p].status = arg[r].asked
        BY <1>0, <3>1, <3>2 DEF NewPayment
      <3>5. arg[r].asked \in {"completed", "pending"}
        BY AskType
      <3> QED
        BY <3>1, <3>2, <3>3, <3>4, <3>5
    <2>2. ASSUME NEW r \in Req, CheckoutCommit(r) PROVE MadeNow
      <3>1. /\ payment' = [payment EXCEPT ![arg[r].of] = NewPayment(r, "completed")]
            /\ arg' = arg
        BY <1>2, <2>2 DEF CheckoutCommit
      <3>2. p = arg[r].of
        BY <1>0, <1>2, <3>1
      <3>3. /\ arg[r].op = "checkout" /\ arg[r].asked = "completed"
            /\ arg[r].of = <<r, arg[r].inv>>
        BY <2>2 DEF CheckoutCommit, At, RequestsFit, CheckoutsComplete
      <3> QED
        BY <3>1, <3>2, <3>3
    <2>3. ASSUME NEW r \in Req, MarkFailed(r) PROVE FALSE
      <3>1. payment[arg[r].of].status = "completed"
        BY <2>3 DEF MarkFailed, At, RefundsFollowAnswers
      <3>2. payment' = [payment EXCEPT ![arg[r].of].status = "failed"]
        BY <2>3 DEF MarkFailed
      <3> QED
        BY <1>0, <1>2, <3>1, <3>2
    <2>4. ASSUME NEW r \in Req, RefundCommit(r) PROVE FALSE
      BY <1>0, <1>2, <2>4 DEF RefundCommit, Claimable
    <2>5. ASSUME NEW r \in Req, NEW a \in Amount, AccountPayment(r, a) PROVE MadeNow
      <3>1. ~UNCHANGED payment
        BY <1>2
      <3>2. PICK split \in [Invoice -> 0..a] : Spread(r, a, split)
        BY <2>5, <3>1, AccountCases
      <3>3. p[1] = r /\ split[p[2]] > 0
        BY <1>2, <3>2 DEF Spread
      <3>4. invoice'[p[2]] = Settled(p[2], split[p[2]], p)
        BY <1>0, <3>2, <3>3 DEF Spread
      <3>5. p \in invoice'[p[2]].history
        BY <3>4 DEF Settled
      <3>6. arg'[r].op = "account"
        BY <1>0, <2>5 DEF AccountPayment, Asks
      <3> QED
        BY <3>3, <3>5, <3>6
    <2>6. ~UNCHANGED payment
      BY <1>2
    <2> QED
      BY <2>1, <2>2, <2>3, <2>4, <2>5, <2>6, PaymentWriters
  <1> QED
    BY <1>1, <1>2

LEMMA ChargedStep ==
  ASSUME Waiting, Charged, [Next]_vars
  PROVE  Charged'
  <1> USE DEF Waiting, IInv
  <1> SUFFICES ASSUME NEW q \in Req, pc'[q] = "settle"
               PROVE  /\ payment'[arg'[q].of].amount = arg'[q].amount
                      /\ payment'[arg'[q].of].refunded = 0
    BY DEF Charged
  <1>0. /\ payment \in [PaymentId -> PaymentRow] /\ pc \in [Req -> Where]
        /\ arg[q].of \in PaymentId
    BY AskType DEF TypeOK
  <1>1. CASE pc[q] = "settle"
    <2>1. /\ payment[arg[q].of].amount = arg[q].amount /\ payment[arg[q].of].refunded = 0
          /\ arg'[q] = arg[q]
      BY <1>1, ArgStays DEF Charged
    <2>2. payment[arg[q].of].status # "none" /\ arg[q].of[1] = q
      BY <1>1 DEF InFlightExists, RequestsFit
    <2> QED
      BY <1>0, <1>1, <2>1, <2>2, AmountStays
  <1>2. CASE pc[q] # "settle"
    <2>1. ~Receive(q)
      BY <1>0 DEF Receive, ReceiveRecord, ReceiveCheckout, ReadForRefund, AccountPayment, Goto
    <2>2. Step(q)
      BY <1>2, <2>1, OwnSteps
    <2>3. CreatePayment(q)
      BY <1>0, <2>2 DEF Step, ReadForRecord, SettleRecorded, MarkFailed, ReduceBalance,
                        ReadForCheckout, CheckoutCommit, RefundCommit, Goto
    <2>4. payment' = [payment EXCEPT ![arg[q].of] = NewPayment(q, arg[q].asked)] /\ arg' = arg
      BY <1>0, <2>3 DEF CreatePayment, Goto
    <2> QED
      BY <1>0, <2>4 DEF NewPayment
  <1> QED
    BY <1>1, <1>2

LEMMA PaidIfRests ==
  ASSUME TypeOK, PaidIsRemain, HistoryIsSettled, Rests
  PROVE  PaidIsRemain'
  <1> SUFFICES ASSUME NEW i \in Invoice
               PROVE  invoice'[i].paid = SumFunctionOnSet(Remain', invoice'[i].history)
    BY DEF PaidIsRemain
  <1> DEFINE known == invoice[i].history
  <1>1. invoice' = invoice
    BY DEF Rests
  <1>2. known \subseteq PaymentId /\ IsFiniteSet(known)
    BY PaymentsFinite, FS_Subset DEF TypeOK, InvoiceRow
  <1>3. ASSUME NEW p \in known PROVE Remain'[p] = Remain[p]
    <2>1. p \in PaymentId /\ p[2] = i
      BY <1>2 DEF HistoryIsSettled
    <2> QED
      BY <2>1 DEF Rests, Remain, Refundable
  <1>4. SumFunctionOnSet(Remain', known) = SumFunctionOnSet(Remain, known)
    BY <1>2, <1>3, SumEqual
  <1> QED
    BY <1>1, <1>4 DEF PaidIsRemain

LEMMA PaidIfGains ==
  ASSUME TypeOK, TypeOK', PaidIsRemain, HistoryIsSettled,
         NEW r \in Req, NEW split \in [Invoice -> Nat], Gains(r, split)
  PROVE  PaidIsRemain'
  <1> SUFFICES ASSUME NEW i \in Invoice
               PROVE  invoice'[i].paid = SumFunctionOnSet(Remain', invoice'[i].history)
    BY DEF PaidIsRemain
  <1> DEFINE known == invoice[i].history
             q == <<r, i>>
  <1>1. /\ known \subseteq PaymentId /\ IsFiniteSet(known) /\ q \in PaymentId
        /\ split[i] \in Nat /\ invoice[i].paid = SumFunctionOnSet(Remain, known)
    BY PaymentsFinite, FS_Subset DEF TypeOK, InvoiceRow, PaidIsRemain, PaymentId
  <1>2. ASSUME NEW p \in known PROVE Remain'[p] = Remain[p]
    <2>1. p \in PaymentId /\ p[2] = i
      BY <1>1 DEF HistoryIsSettled
    <2> QED
      BY <2>1 DEF Gains, Remain, Refundable
  <1>3. SumFunctionOnSet(Remain', known) = SumFunctionOnSet(Remain, known)
    BY <1>1, <1>2, SumEqual
  <1>4. invoice'[i].paid = invoice[i].paid + split[i] /\ invoice[i].paid \in Nat
    BY DEF Gains, TypeOK, InvoiceRow
  <1>5. CASE split[i] = 0
    BY <1>1, <1>3, <1>4, <1>5 DEF Gains
  <1>6. CASE split[i] > 0
    <2>1. invoice'[i].history = known \cup {q} /\ q \notin known /\ Remain'[q] = split[i]
      <3>1. /\ payment'[q].amount = split[i] /\ payment[q].refunded = 0
            /\ payment'[q].refunded = payment[q].refunded
        BY <1>1, <1>6 DEF Gains
      <3>2. Remain'[q] = split[i] - 0
        BY <1>1, <3>1 DEF Remain, Refundable
      <3> QED
        BY <1>1, <1>6, <3>2 DEF Gains
    <2>2. \A x \in known \cup {q} : Remain'[x] \in Int
      <3>1. payment' \in [PaymentId -> PaymentRow]
        BY DEF TypeOK
      <3>2. \A x \in PaymentId : payment'[x].amount \in Nat /\ payment'[x].refunded \in Nat
        BY <3>1 DEF PaymentRow
      <3>3. \A x \in PaymentId : Remain'[x] \in Int
        BY <3>2 DEF Remain, Refundable
      <3> QED
        BY <1>1, <3>3
    <2>3. SumFunctionOnSet(Remain', known \cup {q})
            = Remain'[q] + SumFunctionOnSet(Remain', known)
      BY <1>1, <2>1, <2>2, SumAdd
    <2> HIDE DEF known, q
    <2> QED
      BY <1>1, <1>3, <1>4, <2>1, <2>3
  <1> QED
    BY <1>1, <1>5, <1>6

LEMMA PaidIfReturns ==
  ASSUME TypeOK, TypeOK', PaidIsRemain, HistoryIsSettled,
         NEW p \in PaymentId, NEW a \in Nat \ {0}, Returns(p, a)
  PROVE  PaidIsRemain'
  <1> SUFFICES ASSUME NEW i \in Invoice
               PROVE  invoice'[i].paid = SumFunctionOnSet(Remain', invoice'[i].history)
    BY DEF PaidIsRemain
  <1> DEFINE known == invoice[i].history
  <1>1. /\ known \subseteq PaymentId /\ IsFiniteSet(known)
        /\ invoice[i].paid = SumFunctionOnSet(Remain, known) /\ invoice'[i].history = known
    BY PaymentsFinite, FS_Subset DEF TypeOK, InvoiceRow, PaidIsRemain, Returns
  <1>2. \A x \in known : Remain[x] \in Int /\ Remain'[x] \in Int
    BY <1>1 DEF TypeOK, PaymentRow, Remain, Refundable
  <1>3. \A x \in PaymentId \ {p} : Remain'[x] = Remain[x]
    BY DEF Returns, Remain, Refundable
  <1>4. CASE i # p[2]
    <2>1. p \notin known
      BY <1>4 DEF HistoryIsSettled
    <2>2. SumFunctionOnSet(Remain', known) = SumFunctionOnSet(Remain, known)
      BY <1>1, <1>3, <2>1, SumEqual
    <2>3. invoice'[i] = invoice[i]
      BY <1>4 DEF Returns
    <2> QED
      BY <1>1, <2>2, <2>3
  <1>5. CASE i = p[2]
    <2>1. p \in known
      BY <1>5 DEF Returns
    <2>2. Remain'[p] = Remain[p] - a
      <3>1. payment[p].amount \in Nat /\ payment[p].refunded \in Nat
        BY DEF TypeOK, PaymentRow
      <3>2. /\ payment'[p].amount = payment[p].amount
            /\ payment'[p].refunded = payment[p].refunded + a
        BY DEF Returns
      <3>3. /\ Remain'[p] = payment'[p].amount - payment'[p].refunded
            /\ Remain[p] = payment[p].amount - payment[p].refunded
        BY DEF Remain, Refundable
      <3> QED
        BY <3>1, <3>2, <3>3
    <2>3. SumFunctionOnSet(Remain', known)
            = SumFunctionOnSet(Remain, known) + (Remain'[p] - Remain[p])
      <3> DEFINE old == Remain
                 new == Remain'
      <3>1. /\ IsFiniteSet(known) /\ p \in known
            /\ \A x \in known : old[x] \in Int /\ new[x] \in Int
            /\ \A x \in known \ {p} : old[x] = new[x]
        BY <1>1, <1>2, <1>3, <2>1
      <3> HIDE DEF known, old, new
      <3>2. SumFunctionOnSet(new, known) = SumFunctionOnSet(old, known) + (new[p] - old[p])
        BY <3>1, SumChange
      <3> QED
        BY <3>2 DEF old, new
    <2>4. invoice'[i].paid = invoice[i].paid - a
      BY <1>5 DEF Returns
    <2>5. invoice[i].paid \in Nat /\ Remain[p] \in Int
      BY <1>2, <2>1 DEF TypeOK, InvoiceRow
    <2> HIDE DEF known
    <2> QED
      BY <1>1, <2>2, <2>3, <2>4, <2>5
  <1> QED
    BY <1>4, <1>5

LEMMA InitRInv == Init => RInv
  <1> SUFFICES ASSUME Init PROVE RInv
    OBVIOUS
  <1>1. NotYetMade /\ RefundsFollowAnswers /\ CheckoutsComplete /\ Made /\ Charged
    BY DEF Init, NotYetMade, RefundsFollowAnswers, CheckoutsComplete, Made, Charged, NoArg,
           Asks, NoPayment, PaymentId
  <1>2. PaidIsRemain
    <2>1. \A i \in Invoice : invoice[i].history = {} /\ invoice[i].paid = 0
      BY DEF Init
    <2> QED
      BY <2>1, SumEmpty DEF PaidIsRemain
  <1> QED
    BY <1>1, <1>2, InitIInv DEF RInv, Waiting

LEMMA RInvStep ==
  ASSUME RefundsWait
  PROVE  RInv /\ WithinTotal /\ PaysWhole /\ [Next]_vars => RInv'
  <1> SUFFICES ASSUME RInv, WithinTotal, PaysWhole, [Next]_vars PROVE RInv'
    OBVIOUS
  <1>1. /\ IInv /\ NotYetMade /\ RefundsFollowAnswers /\ Waiting
        /\ CheckoutsComplete /\ Made /\ Charged /\ PaidIsRemain
    BY DEF RInv, Waiting
  <1>2. IInv'
    BY <1>1, IInvStep
  <1>3. Waiting'
    BY <1>1, <1>2, NotYetMadeStep, RefundsFollowStep DEF Waiting
  <1>4. TypeOK /\ TypeOK' /\ HistoryIsSettled
    BY <1>1, <1>2 DEF IInv
  <1>5. CheckoutsComplete' /\ Made' /\ Charged'
    BY <1>1, <1>4, CheckoutsStep, MadeStep, ChargedStep
  <1>6. PaidIsRemain'
    BY <1>1, <1>4, StepMoves, PaidIfRests, PaidIfGains, PaidIfReturns
  <1> QED
    BY <1>3, <1>5, <1>6 DEF RInv

LEMMA RInvClosedStep ==
  ASSUME RefundsWait
  PROVE  RInv /\ BooksClose /\ [Next]_vars => (RInv /\ BooksClose)'
  BY ClosedIsWhole, RInvStep, BooksStep DEF RInv, Waiting, IInv
-----------------------------------------------------------------------------
(* Each step is one of Receivables, or moves nothing there *)

LEMMA RestsStutters ==
  ASSUME Rests
  PROVE  UNCHANGED Books!vars
  <1>1. [i \in Invoice |-> invoice[i].due]' = [i \in Invoice |-> invoice[i].due]
    BY DEF Rests
  <1>2. Collected' = Collected
    BY DEF Rests, Collected
  <1>3. [p \in PaymentId |-> payment[p].refunded]' = [p \in PaymentId |-> payment[p].refunded]
    BY DEF Rests
  <1> QED
    BY <1>1, <1>2, <1>3 DEF Books!vars

LEMMA GainsCollects ==
  ASSUME TypeOK, BooksClose, NEW r \in Req, NEW split \in [Invoice -> Nat], Gains(r, split)
  PROVE  Books!Next
  <1>1. ASSUME NEW i \in Invoice
        PROVE  split[i] \in (UNION {1..Total[j] : j \in Invoice}) \cup {0}
    <2>1. /\ invoice[i].paid \in Nat /\ invoice[i].due \in Nat /\ split[i] \in Nat
          /\ Total[i] \in Nat /\ invoice[i].paid + invoice[i].due = Total[i]
      BY SettlementAssumption DEF TypeOK, InvoiceRow, BooksClose
    <2>2. split[i] <= Total[i]
      <3>1. split[i] <= invoice[i].due
        BY DEF Gains
      <3> QED
        BY <2>1, <3>1
    <2>3. split[i] = 0 \/ split[i] \in 1..Total[i]
      BY <2>1, <2>2
    <2> QED
      BY <2>3
  <1>2. split \in [Invoice -> (UNION {1..Total[j] : j \in Invoice}) \cup {0}]
    BY <1>1
  <1>3. \A i \in Invoice : split[i] <= [j \in Invoice |-> invoice[j].due][i]
    BY DEF Gains
  <1>4. \A i \in Invoice : split[i] > 0 => Collected[<<r, i>>] = 0
    BY DEF Gains, Collected, PaymentId
  <1>5. [i \in Invoice |-> invoice[i].due]' =
          [i \in Invoice |-> [j \in Invoice |-> invoice[j].due][i] - split[i]]
    BY DEF Gains
  <1>6. ASSUME NEW p \in PaymentId
        PROVE  Collected'[p] = IF p[1] = r THEN Collected[p] + split[p[2]] ELSE Collected[p]
    <2>1. /\ p[1] \in Req /\ p[2] \in Invoice /\ p = <<p[1], p[2]>>
          /\ payment[p].amount \in Nat /\ split[p[2]] \in Nat
      BY DEF TypeOK, PaymentRow, PaymentId
    <2>2. /\ Collected[p] = IF p \in invoice[p[2]].history THEN payment[p].amount ELSE 0
          /\ Collected'[p] = IF p \in invoice'[p[2]].history THEN payment'[p].amount ELSE 0
      BY DEF Collected
    <2>3. CASE p[1] = r /\ split[p[2]] > 0
      <3>1. /\ p \in invoice'[p[2]].history /\ p \notin invoice[p[2]].history
            /\ payment'[p].amount = split[p[2]]
        BY <2>1, <2>3 DEF Gains
      <3> QED
        BY <2>1, <2>2, <2>3, <3>1
    <2>4. CASE ~(p[1] = r /\ split[p[2]] > 0)
      <3>1. \/ invoice'[p[2]].history = invoice[p[2]].history
            \/ /\ invoice'[p[2]].history = invoice[p[2]].history \cup {<<r, p[2]>>}
               /\ split[p[2]] > 0
        <4>1. split[p[2]] = 0 \/ split[p[2]] > 0
          BY <2>1
        <4> QED
          BY <2>1, <4>1 DEF Gains
      <3>2. p \in invoice'[p[2]].history <=> p \in invoice[p[2]].history
        BY <2>1, <2>4, <3>1
      <3>3. p \in invoice[p[2]].history => payment'[p].amount = payment[p].amount
        BY DEF Gains
      <3>4. Collected'[p] = Collected[p] /\ Collected[p] \in Nat
        BY <2>1, <2>2, <3>2, <3>3
      <3> QED
        BY <2>1, <2>4, <3>4
    <2> QED
      BY <2>3, <2>4
  <1>7. Collected' = [p \in Req \X Invoice |->
                        IF p[1] = r THEN Collected[p] + split[p[2]] ELSE Collected[p]]
    BY <1>6 DEF PaymentId, Collected
  <1>8. [p \in PaymentId |-> payment[p].refunded]' = [p \in PaymentId |-> payment[p].refunded]
    BY DEF Gains
  <1>9. Books!Collect(r, split)
    BY <1>3, <1>4, <1>5, <1>7, <1>8 DEF Books!Collect
  <1> QED
    BY <1>2, <1>9 DEF Books!Next

LEMMA ReturnsReturn ==
  ASSUME TypeOK, BooksClose, NEW p \in PaymentId, NEW a \in Nat \ {0}, Returns(p, a)
  PROVE  Books!Next
  <1>1. /\ p[2] \in Invoice /\ p \in Req \X Invoice
        /\ invoice[p[2]].paid \in Nat /\ invoice[p[2]].due \in Nat /\ Total[p[2]] \in Nat
        /\ invoice[p[2]].paid + invoice[p[2]].due = Total[p[2]]
    BY SettlementAssumption DEF TypeOK, InvoiceRow, BooksClose, PaymentId
  <1>2. a \in 1..Total[p[2]]
    BY <1>1 DEF Returns
  <1>3. a \in UNION {1..Total[i] : i \in Invoice}
    BY <1>1, <1>2
  <1>4. [q \in PaymentId |-> payment[q].refunded][p] + a <= Collected[p]
    BY DEF Returns, Collected
  <1>5. [q \in PaymentId |-> payment[q].refunded]' =
          [[q \in PaymentId |-> payment[q].refunded] EXCEPT ![p] = @ + a]
    BY DEF Returns
  <1>6. [i \in Invoice |-> invoice[i].due]' =
          [[i \in Invoice |-> invoice[i].due] EXCEPT ![p[2]] = @ + a]
    BY <1>1 DEF Returns
  <1>7. Collected' = Collected
    <2>1. \A q \in PaymentId : q[2] \in Invoice
      BY DEF PaymentId
    <2> QED
      BY <2>1 DEF Returns, Collected
  <1>8. Books!Return(p, a)
    BY <1>4, <1>5, <1>6, <1>7 DEF Books!Return
  <1> QED
    BY <1>1, <1>3, <1>8 DEF Books!Next

LEMMA InitMaps == Init => Books!Init
  <1> SUFFICES ASSUME Init PROVE Books!Init
    OBVIOUS
  <1>1. [i \in Invoice |-> invoice[i].due] = Total
    BY SettlementAssumption DEF Init
  <1>2. Collected = [p \in Req \X Invoice |-> 0]
    BY DEF Init, Collected, PaymentId
  <1>3. [p \in PaymentId |-> payment[p].refunded] = [p \in Req \X Invoice |-> 0]
    BY DEF Init, NoPayment, PaymentId
  <1> QED
    BY <1>1, <1>2, <1>3 DEF Books!Init

\* If users wait for an answer before they refund, then whatever the interleaving
\* of recordPayment, testCheckout, refundPayment and account payments, and
\* wherever they are cut off, each step is a whole collection or return of money,
\* or moves none: no clamp of the refund's pipeline ever hides an amount.
THEOREM SettlementImplementsReceivables ==
  ASSUME RefundsWait
  PROVE  Spec => ImplementsReceivables
  <1>1. RInv /\ BooksClose /\ [Next]_vars => [Books!Next]_(Books!vars)
    <2>1. RInv => TypeOK
      BY DEF RInv, Waiting, IInv
    <2> QED
      BY <2>1, ClosedIsWhole, StepMoves, RestsStutters, GainsCollects, ReturnsReturn
  <1> QED
    BY <1>1, InitRInv, InitCloses, RInvClosedStep, InitMaps, PTL
       DEF Spec, ImplementsReceivables, Books!Spec
-----------------------------------------------------------------------------
(* The customer's balance *)

\* By how much the customer's balance is off from what the open invoices say.
Gap == balance - (Owed + Lag - Untied)

Dues == [i \in Invoice |-> Due(i)]
Behinds == [r \in Req |-> Behind(r)]
Looses == [r \in Req |-> Loose(r)]

LEMMA SumTypes ==
  ASSUME TypeOK
  PROVE  /\ Dues \in [Invoice -> Int] /\ Behinds \in [Req -> Int] /\ Looses \in [Req -> Int]
         /\ Owed \in Int /\ Lag \in Int /\ Untied \in Int /\ balance \in Int
  <1>1. Dues \in [Invoice -> Int]
    BY DEF TypeOK, InvoiceRow, Dues, Due
  <1>2. Behinds \in [Req -> Int]
    BY AskType DEF Behinds, Behind
  <1>3. Looses \in [Req -> Int]
    <2>1. ASSUME NEW r \in Req PROVE Loose(r) \in Int
      <3>1. [i \in Invoice |-> payment[<<r, i>>].amount] \in [Invoice -> Int]
        BY DEF TypeOK, PaymentRow, PaymentId
      <3>2. SumFunction([i \in Invoice |-> payment[<<r, i>>].amount]) \in Int
        BY <3>1, PaymentsFinite, TotalInt
      <3> QED
        BY <3>2, AskType DEF Loose
    <2> QED
      BY <2>1 DEF Looses
  <1>4. SumFunction(Dues) \in Int /\ SumFunction(Behinds) \in Int /\ SumFunction(Looses) \in Int
    BY <1>1, <1>2, <1>3, PaymentsFinite, TotalInt
  <1> QED
    BY <1>1, <1>2, <1>3, <1>4 DEF Owed, Lag, Untied, TypeOK, Dues, Behinds, Looses

LEMMA SumTypesNext ==
  ASSUME TypeOK'
  PROVE  /\ Dues' \in [Invoice -> Int] /\ Behinds' \in [Req -> Int] /\ Looses' \in [Req -> Int]
  <1>1. Dues' \in [Invoice -> Int]
    <2>1. invoice' \in [Invoice -> InvoiceRow]
      BY DEF TypeOK
    <2>2. \A i \in Invoice : invoice'[i].due \in Int
      BY <2>1 DEF InvoiceRow
    <2> QED
      BY <2>2 DEF Dues, Due
  <1>2. \A r \in Req : arg'[r].amount \in Int
    <2>1. arg' \in [Req -> Ask]
      BY DEF TypeOK
    <2> QED
      BY <2>1 DEF Ask
  <1>3. Behinds' \in [Req -> Int]
    BY <1>2 DEF Behinds, Behind
  <1>4. Looses' \in [Req -> Int]
    <2>1. ASSUME NEW r \in Req PROVE Loose(r)' \in Int
      <3>1. payment' \in [PaymentId -> PaymentRow]
        BY DEF TypeOK
      <3>2. [i \in Invoice |-> payment'[<<r, i>>].amount] \in [Invoice -> Int]
        BY <3>1 DEF PaymentRow, PaymentId
      <3>3. SumFunction([i \in Invoice |-> payment'[<<r, i>>].amount]) \in Int
        BY <3>2, PaymentsFinite, TotalInt
      <3> QED
        BY <1>2, <3>3 DEF Loose
    <2> QED
      BY <2>1 DEF Looses
  <1> QED
    BY <1>1, <1>3, <1>4

LEMMA OwedIfGains ==
  ASSUME TypeOK, TypeOK', WithinTotal',
         NEW r \in Req, NEW split \in [Invoice -> Nat], Gains(r, split)
  PROVE  Owed' = Owed - SumFunction(split)
  <1>1. ASSUME NEW i \in Invoice PROVE Dues[i] = Dues'[i] + split[i]
    <2>1. /\ invoice[i].paid \in Nat /\ invoice[i].due \in Nat /\ split[i] \in Nat
          /\ invoice'[i].due = invoice[i].due - split[i]
          /\ invoice'[i].paid = invoice[i].paid + split[i]
      BY DEF TypeOK, InvoiceRow, Gains
    <2>2. CASE split[i] = 0
      <3>1. invoice'[i] = invoice[i]
        BY <2>2 DEF Gains
      <3>2. Dues[i] \in Nat /\ Dues'[i] = Dues[i]
        BY <2>1, <3>1 DEF Dues, Due
      <3> QED
        BY <2>2, <3>2
    <2>3. CASE split[i] > 0
      <3>1. Dues[i] = invoice[i].due
        BY <2>3 DEF Gains, Dues, Due
      <3>2. /\ invoice'[i].status = "paid" <=> invoice'[i].due = 0
            /\ invoice'[i].status \in {"paid", "partially_paid"}
        BY <2>1, <2>3 DEF WithinTotal
      <3>3. Dues'[i] = invoice'[i].due
        BY <3>2 DEF Dues, Due, Payable
      <3> QED
        BY <2>1, <3>1, <3>3
    <2> QED
      BY <2>1, <2>2, <2>3
  <1> DEFINE old == Dues
             new == Dues'
  <1>2. /\ old \in [Invoice -> Int] /\ new \in [Invoice -> Int] /\ split \in [Invoice -> Int]
        /\ \A i \in Invoice : old[i] = new[i] + split[i]
    BY <1>1, SumTypes, SumTypesNext
  <1> HIDE DEF old, new
  <1>3. SumFunction(old) = SumFunction(new) + SumFunction(split)
    BY <1>2, PaymentsFinite, TotalPlus
  <1>4. SumFunction(new) \in Int /\ SumFunction(split) \in Int
    BY <1>2, PaymentsFinite, TotalInt
  <1>5. SumFunction(new) = SumFunction(old) - SumFunction(split)
    BY <1>3, <1>4
  <1> QED
    BY <1>5 DEF Owed, Dues, old, new

LEMMA OwedIfReturns ==
  ASSUME TypeOK, TypeOK', WithinTotal,
         NEW p \in PaymentId, NEW a \in Nat \ {0}, Returns(p, a)
  PROVE  Owed' = Owed + a
  <1> DEFINE i == p[2]
             old == Dues
             new == Dues'
  <1>1. /\ i \in Invoice /\ old \in [Invoice -> Int] /\ new \in [Invoice -> Int]
        /\ \A j \in Invoice \ {i} : old[j] = new[j]
    <2>1. i \in Invoice
      BY DEF PaymentId
    <2>2. \A j \in Invoice \ {i} : invoice'[j] = invoice[j]
      BY DEF Returns
    <2>3. \A j \in Invoice \ {i} : Dues[j] = Dues'[j]
      BY <2>2 DEF Dues, Due
    <2> QED
      BY <2>1, <2>3, SumTypes, SumTypesNext
  <1>2. new[i] = old[i] + a
    <2>1. /\ invoice[i].paid \in Nat /\ invoice[i].due \in Nat /\ a <= invoice[i].paid
          /\ invoice'[i].due = invoice[i].due + a /\ invoice'[i].status \in Payable
      BY <1>1 DEF TypeOK, InvoiceRow, Returns
    <2>2. \/ invoice[i].status = "paid" /\ invoice[i].due = 0
          \/ invoice[i].status = "partially_paid"
      BY <1>1, <2>1 DEF WithinTotal
    <2>3. Dues[i] = invoice[i].due
      BY <1>1, <2>2 DEF Dues, Due, Payable
    <2>4. Dues'[i] = invoice'[i].due
      BY <1>1, <2>1 DEF Dues, Due
    <2> QED
      BY <2>1, <2>3, <2>4
  <1> HIDE DEF i, old, new
  <1>3. SumFunction(new) = SumFunction(old) + (new[i] - old[i])
    BY <1>1, PaymentsFinite, TotalChange
  <1>4. SumFunction(old) \in Int /\ old[i] \in Int
    BY <1>1, PaymentsFinite, TotalInt
  <1>5. SumFunction(new) = SumFunction(old) + a
    BY <1>2, <1>3, <1>4
  <1> QED
    BY <1>5 DEF Owed, Dues, old, new

LEMMA SingleTotal ==
  ASSUME TypeOK, NEW r \in Req
  PROVE  SumFunction(Single(r)) = arg[r].amount
  <1> DEFINE none == [i \in Invoice |-> 0]
             one == Single(r)
             i == arg[r].inv
  <1>1. /\ none \in [Invoice -> Int] /\ one \in [Invoice -> Int] /\ i \in Invoice
        /\ \A j \in Invoice \ {i} : none[j] = one[j]
        /\ \A j \in Invoice : none[j] = 0
        /\ one[i] = arg[r].amount /\ arg[r].amount \in Nat
    BY AskType DEF Single
  <1> HIDE DEF none, one, i
  <1>2. SumFunction(one) = SumFunction(none) + (one[i] - none[i])
    BY <1>1, PaymentsFinite, TotalChange
  <1>3. SumFunction(none) = 0
    BY <1>1, PaymentsFinite, TotalNothing
  <1>4. SumFunction(one) = arg[r].amount
    BY <1>1, <1>2, <1>3
  <1> QED
    BY <1>4 DEF one

\* A step of one request leaves what the others count for.
LEMMA OthersKept ==
  ASSUME Waiting, NEW r \in Req, Receive(r) \/ Step(r), NEW q \in Req \ {r}
  PROVE  Behind(q)' = Behind(q) /\ Loose(q)' = Loose(q)
  <1> USE DEF Waiting, IInv
  <1>1. pc'[q] = pc[q] /\ arg'[q] = arg[q]
    <2>1. pc \in [Req -> Where] /\ arg \in [Req -> Ask]
      BY DEF TypeOK
    <2>2. CASE Receive(r)
      BY <2>1, <2>2 DEF Receive, ReceiveRecord, ReceiveCheckout, ReadForRefund,
                        AccountPayment, Goto
    <2>3. CASE Step(r)
      BY <2>1, <2>3 DEF Step, Goto, ReadForRecord, CreatePayment, SettleRecorded, MarkFailed,
                        ReduceBalance, ReadForCheckout, CheckoutCommit, RefundCommit
    <2> QED
      BY <2>2, <2>3
  <1>2. ASSUME NEW i \in Invoice
        PROVE  payment'[<<q, i>>].amount = payment[<<q, i>>].amount
    <2>0. /\ payment \in [PaymentId -> PaymentRow] /\ <<q, i>> \in PaymentId
          /\ arg[r].of \in PaymentId
      BY AskType DEF TypeOK, PaymentId
    <2>1. CASE UNCHANGED payment
      BY <2>1
    <2>2. CASE CreatePayment(r) \/ CheckoutCommit(r)
      <3>1. arg[r].of = <<r, arg[r].inv>>
        BY <2>2 DEF CreatePayment, CheckoutCommit, At, RequestsFit
      <3>2. arg[r].of # <<q, i>>
        BY <3>1
      <3> QED
        BY <2>0, <2>2, <3>2 DEF CreatePayment, CheckoutCommit
    <2>3. CASE MarkFailed(r)
      BY <2>0, <2>3 DEF MarkFailed, PaymentRow
    <2>4. CASE RefundCommit(r)
      BY <2>0, <2>4 DEF RefundCommit, GiveBack
    <2>5. CASE \E a \in Amount : AccountPayment(r, a)
      BY <2>0, <2>5, AccountCases DEF Spread
    <2> QED
      BY <2>1, <2>2, <2>3, <2>4, <2>5 DEF Receive, Step, ReceiveRecord, ReceiveCheckout,
         ReadForRefund, ReadForRecord, SettleRecorded, ReduceBalance, ReadForCheckout
  <1>3. [i \in Invoice |-> payment'[<<q, i>>].amount]
          = [i \in Invoice |-> payment[<<q, i>>].amount]
    BY <1>2
  <1> QED
    BY <1>1, <1>3 DEF Behind, Loose

\* What is between two writes changes by what the step's request counts for.
LEMMA LagChanges ==
  ASSUME Waiting, TypeOK', NEW r \in Req, Receive(r) \/ Step(r)
  PROVE  /\ Lag' = Lag + (Behind(r)' - Behind(r))
         /\ Untied' = Untied + (Loose(r)' - Loose(r))
         /\ Behind(r) \in Int /\ Behind(r)' \in Int /\ Loose(r) \in Int /\ Loose(r)' \in Int
  <1> DEFINE b == Behinds
             bb == Behinds'
             l == Looses
             ll == Looses'
  <1>1. /\ b \in [Req -> Int] /\ bb \in [Req -> Int]
        /\ l \in [Req -> Int] /\ ll \in [Req -> Int]
    BY SumTypes, SumTypesNext DEF Waiting, IInv
  <1>2. \A q \in Req \ {r} : b[q] = bb[q] /\ l[q] = ll[q]
    BY OthersKept DEF Behinds, Looses
  <1>3. b[r] = Behind(r) /\ bb[r] = Behind(r)' /\ l[r] = Loose(r) /\ ll[r] = Loose(r)'
    BY DEF Behinds, Looses
  <1>4. Lag = SumFunction(b) /\ Lag' = SumFunction(bb)
    BY DEF Lag, Behinds
  <1>5. Untied = SumFunction(l) /\ Untied' = SumFunction(ll)
    BY DEF Untied, Looses
  <1> HIDE DEF b, bb, l, ll
  <1>6. SumFunction(bb) = SumFunction(b) + (bb[r] - b[r])
    BY <1>1, <1>2, PaymentsFinite, TotalChange
  <1>7. SumFunction(ll) = SumFunction(l) + (ll[r] - l[r])
    BY <1>1, <1>2, PaymentsFinite, TotalChange
  <1> QED
    BY <1>1, <1>3, <1>4, <1>5, <1>6, <1>7

\* A request counts for nothing unless it is between its two writes, or paid on
\* account.
LEMMA Quiet ==
  ASSUME NEW r \in Req
  PROVE  /\ pc[r] \notin {"reduce", "ok"} => Behind(r) = 0 /\ Loose(r) = 0
         /\ pc[r] # "reduce" /\ arg[r].op # "account" => Behind(r) = 0 /\ Loose(r) = 0
         /\ pc'[r] \notin {"reduce", "ok"} => Behind(r)' = 0 /\ Loose(r)' = 0
         /\ pc'[r] # "reduce" /\ arg'[r].op # "account" => Behind(r)' = 0 /\ Loose(r)' = 0
         /\ arg[r].op # "account" => Loose(r) = 0
         /\ arg'[r].op # "account" => Loose(r)' = 0
  BY DEF Behind, Loose

LEMMA InStepKept ==
  ASSUME Waiting, TypeOK', NEW r \in Req, Receive(r) \/ Step(r),
         Owed' \in Int,
         balance' - balance = (Owed' - Owed) + (Behind(r)' - Behind(r)) - (Loose(r)' - Loose(r))
  PROVE  Gap' = Gap
  <1>1. balance' \in Int
    BY DEF TypeOK
  <1>2. /\ balance \in Int /\ Owed \in Int /\ Lag \in Int /\ Untied \in Int
    BY SumTypes DEF Waiting, IInv
  <1>3. /\ Lag' = Lag + (Behind(r)' - Behind(r))
        /\ Untied' = Untied + (Loose(r)' - Loose(r))
        /\ Behind(r) \in Int /\ Behind(r)' \in Int /\ Loose(r) \in Int /\ Loose(r)' \in Int
    BY LagChanges
  <1>4. balance' - (Owed' + Lag' - Untied') = balance - (Owed + Lag - Untied)
    BY <1>1, <1>2, <1>3
  <1> QED
    BY <1>4 DEF Gap

\* A step that moves no money and leaves a request that counts for nothing.
LEMMA InStepIfQuiet ==
  ASSUME Waiting, TypeOK', NEW r \in Req, Receive(r) \/ Step(r),
         invoice' = invoice, balance' = balance,
         Behind(r) = 0, Loose(r) = 0, Behind(r)' = 0, Loose(r)' = 0
  PROVE  Gap' = Gap
  <1>1. Owed' = Owed
    BY DEF Owed, Due
  <1>2. Owed \in Int /\ balance \in Int
    BY SumTypes DEF Waiting, IInv
  <1>3. balance' - balance = (Owed' - Owed) + (Behind(r)' - Behind(r)) - (Loose(r)' - Loose(r))
    BY <1>1, <1>2
  <1> QED
    BY <1>1, <1>2, <1>3, InStepKept

LEMMA SettleInStep ==
  ASSUME Waiting, Charged, TypeOK', PaysWhole, WithinTotal', NEW r \in Req, SettleRecorded(r)
  PROVE  Gap' = Gap
  <1> USE DEF Waiting, IInv
  <1>1. /\ pc[r] = "settle" /\ balance' = balance /\ arg' = arg /\ pc \in [Req -> Where]
        /\ (Receive(r) \/ Step(r))
    BY DEF SettleRecorded, At, Step, TypeOK
  <1>2. arg[r].op = "record" /\ arg[r].amount \in Nat
    BY <1>1, AskType DEF RequestsFit
  <1>3. Behind(r) = 0 /\ Loose(r) = 0
    BY <1>1, Quiet
  <1>4. CASE Rests /\ Goto(r, "fail")
    <2>1. pc'[r] = "fail" /\ invoice' = invoice
      BY <1>1, <1>4 DEF Goto, Rests
    <2> QED
      BY <1>1, <1>3, <2>1, Quiet, InStepIfQuiet
  <1>5. CASE Single(r) \in [Invoice -> Nat] /\ Gains(r, Single(r)) /\ Goto(r, "reduce")
    <2>1. Owed' = Owed - arg[r].amount
      BY <1>5, OwedIfGains, SingleTotal
    <2>2. Behind(r)' = arg[r].amount /\ Loose(r)' = 0
      BY <1>1, <1>2, <1>5 DEF Goto, Behind, Loose
    <2>3. Owed \in Int /\ balance \in Int
      BY SumTypes
    <2>4. /\ Owed' \in Int
          /\ balance' - balance
               = (Owed' - Owed) + (Behind(r)' - Behind(r)) - (Loose(r)' - Loose(r))
      BY <1>1, <1>2, <1>3, <2>1, <2>2, <2>3
    <2> QED
      BY <1>1, <2>4, InStepKept
  <1> QED
    BY <1>4, <1>5, SettleGains

LEMMA ReduceInStep ==
  ASSUME Waiting, TypeOK', NEW r \in Req, ReduceBalance(r)
  PROVE  Gap' = Gap
  <1> USE DEF Waiting, IInv
  <1>1. /\ pc[r] = "reduce" /\ balance' = balance - arg[r].amount /\ arg' = arg
        /\ invoice' = invoice /\ pc'[r] = "ok" /\ (Receive(r) \/ Step(r))
    BY DEF ReduceBalance, At, Step, TypeOK, Goto
  <1>2. arg[r].op = "record" /\ arg[r].amount \in Nat
    BY <1>1, AskType DEF RequestsFit
  <1>3. Behind(r) = arg[r].amount /\ Loose(r) = 0 /\ Behind(r)' = 0 /\ Loose(r)' = 0
    BY <1>1, <1>2 DEF Behind, Loose
  <1>4. Owed' = Owed
    BY <1>1 DEF Owed, Due
  <1>5. Owed \in Int /\ balance \in Int
    BY SumTypes
  <1>6. /\ Owed' \in Int
        /\ balance' - balance = (Owed' - Owed) + (Behind(r)' - Behind(r)) - (Loose(r)' - Loose(r))
    BY <1>1, <1>2, <1>3, <1>4, <1>5
  <1> QED
    BY <1>1, <1>6, InStepKept

LEMMA CheckoutInStep ==
  ASSUME Waiting, TypeOK', PaysWhole, WithinTotal', NEW r \in Req, CheckoutCommit(r)
  PROVE  Gap' = Gap
  <1> USE DEF Waiting, IInv
  <1>1. /\ pc[r] = "commit" /\ arg' = arg /\ (Receive(r) \/ Step(r))
        /\ pc'[r] \in {"error", "conflict", "ok"}
    BY DEF CheckoutCommit, At, Step, TypeOK, Goto
  <1>2. arg[r].op = "checkout" /\ arg[r].amount \in Nat
    BY <1>1, AskType DEF RequestsFit
  <1>3. Behind(r) = 0 /\ Loose(r) = 0 /\ Behind(r)' = 0 /\ Loose(r)' = 0
    BY <1>1, <1>2, Quiet
  <1>4. CASE Rests /\ balance' = balance
    BY <1>1, <1>3, <1>4, InStepIfQuiet DEF Rests
  <1>5. CASE /\ Single(r) \in [Invoice -> Nat] /\ Gains(r, Single(r))
             /\ balance' = balance - arg[r].amount
    <2>1. Owed' = Owed - arg[r].amount
      BY <1>5, OwedIfGains, SingleTotal
    <2>2. Owed \in Int /\ balance \in Int
      BY SumTypes
    <2>3. /\ Owed' \in Int
          /\ balance' - balance
               = (Owed' - Owed) + (Behind(r)' - Behind(r)) - (Loose(r)' - Loose(r))
      BY <1>2, <1>3, <1>5, <2>1, <2>2
    <2> QED
      BY <1>1, <2>3, InStepKept
  <1> QED
    BY <1>4, <1>5, CheckoutGains

LEMMA RefundInStep ==
  ASSUME RInv, WithinTotal, TypeOK', NEW r \in Req, RefundCommit(r)
  PROVE  Gap' = Gap
  <1> USE DEF RInv, Waiting, IInv
  <1>1. /\ pc[r] = "claim" /\ arg' = arg /\ (Receive(r) \/ Step(r))
        /\ pc'[r] \in {"conflict", "ok"}
    BY DEF RefundCommit, At, Step, TypeOK, Goto
  <1>2. arg[r].op = "refund"
    BY <1>1 DEF RequestsFit
  <1>3. Behind(r) = 0 /\ Loose(r) = 0 /\ Behind(r)' = 0 /\ Loose(r)' = 0
    BY <1>1, <1>2, Quiet
  <1>4. CASE Rests /\ balance' = balance
    BY <1>1, <1>3, <1>4, InStepIfQuiet DEF Rests
  <1>5. CASE /\ arg[r].of \in PaymentId /\ arg[r].amount \in Nat \ {0}
             /\ Returns(arg[r].of, arg[r].amount)
             /\ balance' = balance + arg[r].amount
    <2>1. Owed' = Owed + arg[r].amount
      BY <1>5, OwedIfReturns
    <2>2. Owed \in Int /\ balance \in Int
      BY SumTypes
    <2>3. /\ Owed' \in Int
          /\ balance' - balance
               = (Owed' - Owed) + (Behind(r)' - Behind(r)) - (Loose(r)' - Loose(r))
      BY <1>3, <1>5, <2>1, <2>2
    <2> QED
      BY <1>1, <2>3, InStepKept
  <1> QED
    BY <1>4, <1>5, RefundReturns

LEMMA AccountInStep ==
  ASSUME Waiting, TypeOK', PaysWhole, WithinTotal',
         NEW r \in Req, NEW a \in Amount, AccountPayment(r, a)
  PROVE  Gap' = Gap
  <1> USE DEF Waiting, IInv
  <1>1. /\ pc[r] = "idle" /\ (Receive(r) \/ Step(r)) /\ arg \in [Req -> Ask]
        /\ arg' = [arg EXCEPT ![r] = Asks("account", 1, a, NoKey, "completed", <<r, 1>>)]
        /\ a \in Nat /\ pc \in [Req -> Where]
    BY SettlementAssumption DEF AccountPayment, At, Receive, TypeOK
  <1>2. Behind(r) = 0 /\ Loose(r) = 0
    BY <1>1, Quiet
  <1>3. arg'[r].op = "account" /\ arg'[r].amount = a
    BY <1>1 DEF Asks
  <1>4. CASE Rests /\ balance' = balance /\ Goto(r, "rejected")
    <2>1. pc'[r] = "rejected" /\ invoice' = invoice
      BY <1>1, <1>4 DEF Goto, Rests
    <2> QED
      BY <1>1, <1>2, <1>4, <2>1, Quiet, InStepIfQuiet
  <1>5. ASSUME NEW split \in [Invoice -> Nat], Gains(r, split), Spread(r, a, split)
        PROVE  Gap' = Gap
    <2>1. Owed' = Owed - SumFunction(split)
      BY <1>5, OwedIfGains
    <2>2. pc'[r] = "ok" /\ balance' = balance - a
      BY <1>1, <1>5 DEF Spread, Goto
    <2>3. [i \in Invoice |-> payment'[<<r, i>>].amount] = split
      <3>1. ASSUME NEW i \in Invoice PROVE payment'[<<r, i>>].amount = split[i]
        <4>1. /\ <<r, i>> \in PaymentId /\ payment[<<r, i>>] = NoPayment
              /\ split[i] \in Nat
          BY <1>1 DEF PaymentId, NotYetMade
        <4>2. CASE split[i] > 0
          BY <1>5, <4>1, <4>2 DEF Spread
        <4>3. CASE split[i] = 0
          BY <1>5, <4>1, <4>3 DEF Spread, NoPayment
        <4> QED
          BY <4>1, <4>2, <4>3
      <3> QED
        BY <3>1
    <2>4. Behind(r)' = 0 /\ Loose(r)' = a - SumFunction(split)
      BY <1>3, <2>2, <2>3 DEF Behind, Loose
    <2>5. Owed \in Int /\ balance \in Int /\ SumFunction(split) \in Int
      BY SumTypes, PaymentsFinite, TotalInt
    <2>6. /\ Owed' \in Int
          /\ balance' - balance
               = (Owed' - Owed) + (Behind(r)' - Behind(r)) - (Loose(r)' - Loose(r))
      BY <1>1, <1>2, <2>1, <2>2, <2>4, <2>5
    <2> QED
      BY <1>1, <2>6, InStepKept
  <1> QED
    BY <1>4, <1>5, AccountGains

LEMMA InStepNext ==
  ASSUME RInv, WithinTotal, PaysWhole, TypeOK', WithinTotal', [Next]_vars
  PROVE  Gap' = Gap
  <1> USE DEF RInv, Waiting, IInv
  <1>0. pc \in [Req -> Where] /\ arg \in [Req -> Ask]
    BY DEF TypeOK
  <1>1. CASE UNCHANGED <<invoice, payment, balance, pc, arg>>
    BY <1>1 DEF Gap, Owed, Due, Lag, Behind, Untied, Loose
  <1>2. ASSUME NEW r \in Req, Receive(r) PROVE Gap' = Gap
    <2>1. CASE \E a \in Amount : AccountPayment(r, a)
      BY <2>1, AccountInStep
    <2>2. CASE ~ \E a \in Amount : AccountPayment(r, a)
      <3>1. /\ pc[r] = "idle" /\ invoice' = invoice /\ balance' = balance
            /\ pc'[r] \in {"replayed", "read", "claim", "rejected"}
        BY <1>0, <1>2, <2>2 DEF Receive, ReceiveRecord, ReceiveCheckout, ReadForRefund, At, Goto
      <3> QED
        BY <1>2, <3>1, Quiet, InStepIfQuiet
    <2> QED
      BY <2>1, <2>2
  <1>3. ASSUME NEW r \in Req, Step(r) PROVE Gap' = Gap
    <2>1. CASE ReadForRecord(r) \/ ReadForCheckout(r) \/ MarkFailed(r)
      <3>1. /\ pc[r] \in {"read", "fail"} /\ invoice' = invoice /\ balance' = balance
            /\ pc'[r] \in {"create", "rejected", "commit", "conflict"}
        BY <1>0, <2>1 DEF ReadForRecord, ReadForCheckout, MarkFailed, At, Goto
      <3> QED
        BY <1>3, <3>1, Quiet, InStepIfQuiet
    <2>2. CASE CreatePayment(r)
      <3>1. /\ pc[r] = "create" /\ invoice' = invoice /\ balance' = balance /\ arg' = arg
            /\ pc'[r] \in {"error", "settle", "ok"}
        BY <1>0, <2>2 DEF CreatePayment, At, Goto
      <3>2. arg[r].op = "record"
        BY <3>1 DEF RequestsFit
      <3> QED
        BY <1>3, <3>1, <3>2, Quiet, InStepIfQuiet
    <2> QED
      BY <1>3, <2>1, <2>2, SettleInStep, ReduceInStep, CheckoutInStep, RefundInStep DEF Step
  <1>4. ASSUME NEW r \in Req, CutOff(r) PROVE Gap' = Gap
    BY <1>1, <1>4 DEF CutOff
  <1> QED
    BY <1>1, <1>2, <1>3, <1>4 DEF Next, vars

LEMMA InitInStep == Init => Gap = 0
  <1> SUFFICES ASSUME Init PROVE Gap = 0
    OBVIOUS
  <1>1. TypeOK
    BY InitIInv DEF IInv
  <1>2. \A r \in Req : Behinds[r] = 0 /\ Looses[r] = 0
    BY DEF Init, Behinds, Behind, Looses, Loose
  <1>3. SumFunction(Behinds) = 0 /\ SumFunction(Looses) = 0
    BY <1>1, <1>2, SumTypes, PaymentsFinite, TotalNothing
  <1>4. Lag = 0 /\ Untied = 0
    BY <1>3 DEF Lag, Behinds, Untied, Looses
  <1>5. balance = Owed /\ Owed \in Int
    BY <1>1, SumTypes DEF Init
  <1> QED
    BY <1>4, <1>5 DEF Gap

\* What an invoice says was paid is the sum of what its payments brought in less
\* what was refunded of them, and the customer's balance is the sum of what the
\* open invoices say is due, but for the payments between their two writes and
\* the money paid on account that found no invoice: for every number of invoices
\* and requests, whatever interleaves and wherever a request is cut off.
THEOREM MoneyStaysKept == Spec => []MoneyIsKept
  <1> DEFINE Both == RInv /\ BooksClose /\ Gap = 0
  <1>1. CASE RefundsWait
    <2>1. Init => Both
      BY InitRInv, InitCloses, InitInStep
    <2>2. Both /\ [Next]_vars => Both'
      <3> SUFFICES ASSUME Both, [Next]_vars PROVE Both'
        OBVIOUS
      <3>1. RInv' /\ BooksClose'
        BY <1>1, RInvClosedStep
      <3>2. TypeOK /\ TypeOK'
        BY <3>1 DEF RInv, Waiting, IInv
      <3>3. WithinTotal /\ PaysWhole
        BY <3>2, ClosedIsWhole
      <3>4. WithinTotal'
        BY <3>1, <3>2, ClosedIsWithinNext
      <3> QED
        BY <3>1, <3>2, <3>3, <3>4, InStepNext
    <2>3. Both => MoneyIsKept
      <3> SUFFICES ASSUME Both PROVE MoneyIsKept
        OBVIOUS
      <3>1. /\ balance - (Owed + Lag - Untied) = 0
            /\ Owed \in Int /\ Lag \in Int /\ Untied \in Int /\ balance \in Int
        BY SumTypes DEF Gap, RInv, Waiting, IInv
      <3>2. balance = Owed + Lag - Untied
        BY <3>1
      <3> QED
        BY <3>2 DEF RInv, PaidIsRemain, Remain, MoneyIsKept, PaidIsCollected, BalanceInStep
    <2> QED
      BY <2>1, <2>2, <2>3, PTL DEF Spec
  <1>2. CASE ~RefundsWait
    <2>1. MoneyIsKept
      BY <1>2 DEF MoneyIsKept, PaidIsCollected, BalanceInStep
    <2> QED
      BY <2>1, PTL
  <1> QED
    BY <1>1, <1>2
-----------------------------------------------------------------------------
(* CreditNotes: numbers *)

NumbersTyped ==
  /\ DOMAIN note = Clerk /\ DOMAIN at = Clerk /\ DOMAIN read = Clerk
  /\ \A c \in Clerk : note[c].number \in Nat
  /\ \A c \in Clerk : DOMAIN read[c] = {"inv", "amount", "apply", "due", "paid", "number"}

\* A request without a number yet has no note, and one that has counted the notes there are has
\* not counted more than there are now: notes are never deleted.
NumbersWait ==
  \A c \in Clerk :
    /\ at[c] \in {"idle", "check", "number", "create"} => note[c].number = 0
    /\ at[c] = "create" => read[c].number \in 1..(Cardinality(Issued) + 1)

NumbersInv == NumbersTyped /\ NumbersWait /\ NotesNumberedInARow

LEMMA IssuedIsFinite == IsFiniteSet(Issued) /\ Cardinality(Issued) \in Nat
  BY CreditAssumption, FS_Subset, FS_CardinalityType DEF Issued

LEMMA NumbersStart == CreditInit => NumbersInv
  <1> SUFFICES ASSUME CreditInit PROVE NumbersInv
    OBVIOUS
  <1>1. NumbersTyped /\ NumbersWait
    BY DEF CreditInit, NumbersTyped, NumbersWait, NoNote
  <1>2. Issued = {} /\ Cardinality(Issued) = 0
    BY FS_EmptySet DEF CreditInit, Issued, NoNote
  <1> QED
    BY <1>1, <1>2 DEF NumbersInv, NotesNumberedInARow

\* Where no note is made, a request may go on, but none gets to "create" without counting.
LEMMA NoNewNote ==
  ASSUME NumbersInv, note' = note, DOMAIN at' = Clerk, DOMAIN read' = Clerk,
         \A c \in Clerk :
           /\ DOMAIN read'[c] = {"inv", "amount", "apply", "due", "paid", "number"}
           /\ at'[c] \in {"idle", "check", "number", "create"} =>
                at[c] \in {"idle", "check", "number", "create"}
           /\ at'[c] = "create" =>
                \/ at[c] = "create" /\ read'[c].number = read[c].number
                \/ read'[c].number = Cardinality(Issued) + 1
  PROVE  NumbersInv'
  <1>1. Issued' = Issued
    BY DEF Issued
  <1>2. NumbersTyped'
    BY DEF NumbersInv, NumbersTyped
  <1>3. NumbersWait'
    BY <1>1, IssuedIsFinite DEF NumbersInv, NumbersWait
  <1>4. NotesNumberedInARow'
    BY <1>1 DEF NumbersInv, NotesNumberedInARow
  <1> QED
    BY <1>2, <1>3, <1>4 DEF NumbersInv

\* A new note takes the number that comes next, or is refused.
LEMMA NewNote ==
  ASSUME NumbersInv, NEW c \in Clerk, CreateNote(c)
  PROVE  NumbersInv'
  <1> USE DEF NumbersInv
  <1> DEFINE n == Cardinality(Issued)
             taken == \E d \in Issued : note[d].number = read[c].number
  <1>1. /\ at[c] = "create" /\ DOMAIN at' = Clerk /\ read' = read
        /\ at'[c] \in {"apply", "done"} /\ \A d \in Clerk \ {c} : at'[d] = at[d]
    BY DEF CreateNote, Step1, NumbersTyped
  <1>2. read[c].number \in 1..(n + 1) /\ n \in Nat /\ note[c].number = 0
    BY <1>1, IssuedIsFinite DEF NumbersWait
  <1>3. CASE taken
    <2>1. note' = note
      BY <1>3 DEF CreateNote
    <2> QED
      BY <1>1, <2>1, NoNewNote DEF NumbersTyped
  <1>4. CASE ~taken
    <2>1. /\ DOMAIN note' = Clerk /\ note'[c].number = read[c].number
          /\ \A d \in Clerk \ {c} : note'[d] = note[d]
      BY <1>4 DEF CreateNote, NumbersTyped
    <2>2. read[c].number = n + 1
      <3>1. read[c].number \notin 1..n
        BY <1>4 DEF NotesNumberedInARow
      <3> QED
        BY <1>2, <3>1
    <2>3. Issued' = Issued \cup {c} /\ c \notin Issued
      BY <1>2, <2>1, <2>2 DEF Issued
    <2>4. Cardinality(Issued') = n + 1
      BY <2>3, IssuedIsFinite, FS_AddElement
    <2>5. NumbersTyped'
      BY <1>1, <1>2, <2>1 DEF NumbersTyped
    <2>6. NumbersWait'
      BY <1>1, <1>2, <2>1, <2>4 DEF NumbersWait
    <2>7. NotesNumberedInARow'
      <3>1. {note[d].number : d \in Issued} = 1..n
        BY DEF NotesNumberedInARow
      <3>2. \A d \in Issued : note'[d].number = note[d].number
        BY <2>1, <2>3 DEF Issued
      <3> HIDE DEF n
      <3>3. \A k : (\E d \in Issued' : k = note'[d].number) <=> k \in 1..n \/ k = n + 1
        BY <2>1, <2>2, <2>3, <3>1, <3>2
      <3>4. {note'[d].number : d \in Issued'} = 1..(n + 1)
        BY <1>2, <3>3
      <3> QED
        BY <2>4, <3>4 DEF NotesNumberedInARow
    <2> QED
      BY <2>5, <2>6, <2>7
  <1> QED
    BY <1>3, <1>4

LEMMA NumbersStep == NumbersInv /\ [CreditNext]_allVars => NumbersInv'
  <1> SUFFICES ASSUME NumbersInv, [CreditNext]_allVars PROVE NumbersInv'
    OBVIOUS
  <1>1. CASE UNCHANGED creditVars
    BY <1>1, NoNewNote DEF creditVars, NumbersInv, NumbersTyped
  <1>2. ASSUME NEW c \in Clerk, NEW i \in Invoice, NEW a \in Amount, NEW apply \in BOOLEAN,
               ReadForCredit(c, i, a, apply)
        PROVE  NumbersInv'
    BY <1>2, NoNewNote DEF ReadForCredit, Step1, NumbersInv, NumbersTyped
  <1>3. ASSUME NEW c \in Clerk, CheckCredit(c) PROVE NumbersInv'
    BY <1>3, NoNewNote DEF CheckCredit, Step1, NumbersInv, NumbersTyped
  <1>4. ASSUME NEW c \in Clerk, NumberCredit(c) PROVE NumbersInv'
    BY <1>4, NoNewNote DEF NumberCredit, Step1, NumbersInv, NumbersTyped
  <1>5. ASSUME NEW c \in Clerk, CreateNote(c) PROVE NumbersInv'
    BY <1>5, NewNote
  <1>6. ASSUME NEW c \in Clerk, ApplyCredit(c) PROVE NumbersInv'
    BY <1>6, NoNewNote DEF ApplyCredit, Step1, NumbersInv, NumbersTyped
  <1>7. ASSUME NEW c \in Clerk, PostCredit(c) PROVE NumbersInv'
    BY <1>7, NoNewNote DEF PostCredit, Step1, NumbersInv, NumbersTyped
  <1> QED
    BY <1>1, <1>2, <1>3, <1>4, <1>5, <1>6, <1>7 DEF CreditNext, CreditStep, allVars, creditVars

\* However many credit notes are issued at once, their numbers run on from one without a gap and
\* none is given twice, although createCreditNote counts first and creates later.
THEOREM NotesAlwaysNumberedInARow == CreditSpec => []NotesNumberedInARow
  <1>1. NumbersInv => NotesNumberedInARow
    BY DEF NumbersInv
  <1> QED
    BY <1>1, NumbersStart, NumbersStep, PTL DEF CreditSpec
-----------------------------------------------------------------------------
(* The invariant that keeps the books *)

NoteRow == [inv : Invoice \cup {0}, amount : Nat, number : Nat]
ReadRow == [inv : Invoice, amount : Nat, apply : BOOLEAN, due : Nat, paid : Nat, number : Nat]
Resting == {"idle", "done"}
CreditTyped ==
  /\ note \in [Clerk -> NoteRow]
  /\ at \in [Clerk -> Resting \cup {"check", "number", "create", "apply", "post"}]
  /\ read \in [Clerk -> ReadRow]

\* What a credit-note request has written is what it asks.
NotesFit ==
  \A c \in Clerk :
    /\ at[c] \notin Resting => read[c].amount > 0
    /\ at[c] \in {"idle", "check", "number", "create"} => note[c] = NoNote
    /\ at[c] = "apply" => note[c].inv = read[c].inv /\ note[c].amount = read[c].amount

\* One request is at work at most, be it for a payment or for a credit note.
Alone ==
  /\ \A c, d \in Clerk : at[c] \notin Resting /\ at[d] \notin Resting => c = d
  /\ \A r, q \in Req \ dead : pc[r] \in Working /\ pc[q] \in Working => r = q
  /\ \A c \in Clerk, r \in Req \ dead : ~(at[c] \notin Resting /\ pc[r] \in Working)

\* So the invoice still is what a credit-note request read, and there still is the room it found.
ReadsHold ==
  \A c \in Clerk : at[c] \in {"check", "number", "create", "apply"} =>
    /\ invoice[read[c].inv].due = read[c].due
    /\ invoice[read[c].inv].paid = read[c].paid
    /\ invoice[read[c].inv].status \in Creditable
Room ==
  /\ \A i \in Invoice : Credited(i) <= Total[i]
  /\ \A c \in Clerk : at[c] \in {"number", "create"} =>
       Credited(read[c].inv) + read[c].amount <= Total[read[c].inv]

Serial == Alone /\ WithinTotal /\ ReadsHold /\ Room

\* Nothing was taken from what an invoice without a credit note asks for.
Uncredited == \A i \in Invoice : Credited(i) = 0 => Whole(i)
Balanced == PaidIsRemain /\ Uncredited /\ Gap = CreditLag

Answering == NotYetMade /\ RefundsFollowAnswers /\ CheckoutsComplete /\ Made /\ Charged

CreditInv ==
  /\ IInv /\ CreditTyped /\ NotesFit
  /\ ~mixed => Serial
  /\ RefundsWait => Answering
  /\ RefundsWait /\ ~mixed /\ lost = {} => Balanced

Credits(i) == [c \in Clerk |-> IF note[c].inv = i THEN note[c].amount ELSE 0]
Lags == [c \in Clerk |-> IF at[c] = "post" THEN Reduction(c) ELSE 0]

LEMMA SmallerOfTwo ==
  ASSUME NEW a \in Nat, NEW b \in Nat
  PROVE  Min({a, b}) \in {a, b} /\ Min({a, b}) <= a /\ Min({a, b}) <= b
  <1>1. \E x \in {a, b} : \A y \in {a, b} : x =< y
    <2>1. CASE a <= b
      BY <2>1
    <2>2. CASE b <= a
      BY <2>2
    <2> QED
      BY <2>1, <2>2
  <1>2. /\ Min({a, b}) \in {a, b}
        /\ \A y \in {a, b} : Min({a, b}) =< y
    BY <1>1, Zenon DEF Min
  <1> QED
    BY <1>2

LEMMA CreditsType ==
  ASSUME CreditTyped
  PROVE  /\ \A i \in Invoice : Credits(i) \in [Clerk -> Nat] /\ Credited(i) \in Nat
         /\ \A c \in Clerk : Reduction(c) \in Nat /\ Reduction(c) <= read[c].due
         /\ \A c \in Clerk : read[c].amount > 0 /\ read[c].due > 0 => Reduction(c) > 0
         /\ Lags \in [Clerk -> Nat]
  <1>1. ASSUME NEW i \in Invoice PROVE Credits(i) \in [Clerk -> Nat]
    BY DEF Credits, CreditTyped, NoteRow
  <1>2. ASSUME NEW i \in Invoice PROVE Credited(i) \in Nat
    BY <1>1, CreditAssumption, TotalNat DEF Credited, Credits
  <1>3. ASSUME NEW c \in Clerk
        PROVE  /\ Reduction(c) \in Nat /\ Reduction(c) <= read[c].due
               /\ read[c].amount > 0 /\ read[c].due > 0 => Reduction(c) > 0
    <2>1. read[c].due \in Nat /\ read[c].amount \in Nat
      BY DEF CreditTyped, ReadRow
    <2> QED
      BY <2>1, SmallerOfTwo DEF Reduction
  <1> QED
    BY <1>1, <1>2, <1>3 DEF Lags

LEMMA CreditsTypeNext ==
  ASSUME CreditTyped'
  PROVE  /\ \A i \in Invoice : Credits(i)' \in [Clerk -> Nat]
         /\ Lags' \in [Clerk -> Nat]
  <1>1. ASSUME NEW i \in Invoice PROVE Credits(i)' \in [Clerk -> Nat]
    BY DEF Credits, CreditTyped, NoteRow
  <1>2. ASSUME NEW c \in Clerk PROVE Reduction(c)' \in Nat
    <2>1. read'[c].due \in Nat /\ read'[c].amount \in Nat
      BY DEF CreditTyped, ReadRow
    <2> QED
      BY <2>1, SmallerOfTwo DEF Reduction
  <1> QED
    BY <1>1, <1>2 DEF Lags

-----------------------------------------------------------------------------
(* What the payment handlers do keeps the rows within their totals *)

Fits(i, row) ==
  /\ row.paid + row.due <= Total[i]
  /\ row.status = "paid" <=> row.due = 0 /\ row.paid > 0
  /\ row.status \in {"paid", "partially_paid"} <=> row.paid > 0

LEMMA SettledFits ==
  ASSUME TypeOK, WithinTotal, NEW i \in Invoice, NEW a \in Nat, NEW p \in PaymentId,
         a > 0, Settleable(i, a)
  PROVE  Fits(i, Settled(i, a, p))
  <1>1. invoice[i] \in InvoiceRow /\ Total[i] \in Nat
    BY SettlementAssumption DEF TypeOK
  <1>2. /\ invoice[i].paid \in Nat /\ invoice[i].due \in Nat
        /\ invoice[i].paid + invoice[i].due <= Total[i] /\ a <= invoice[i].due
    BY <1>1 DEF InvoiceRow, WithinTotal, Settleable
  <1>3. /\ Settled(i, a, p).paid = invoice[i].paid + a
        /\ Settled(i, a, p).due = Total[i] - (invoice[i].paid + a)
        /\ Settled(i, a, p).status =
             IF Total[i] - (invoice[i].paid + a) <= 0 THEN "paid" ELSE "partially_paid"
    BY <1>1, <1>2 DEF Settled
  <1> QED
    BY <1>1, <1>2, <1>3 DEF Fits

LEMMA ReopenedFits ==
  ASSUME TypeOK, WithinTotal, NEW i \in Invoice, NEW a \in Nat, a > 0
  PROVE  Fits(i, Reopened(i, a))
  <1>1. invoice[i] \in InvoiceRow /\ Total[i] \in Nat /\ Total[i] > 0
    BY SettlementAssumption DEF TypeOK
  <1>2. /\ invoice[i].paid \in Nat /\ invoice[i].due \in Nat
        /\ invoice[i].paid + invoice[i].due <= Total[i]
    BY <1>1 DEF InvoiceRow, WithinTotal
  <1> DEFINE left == IF invoice[i].paid > a THEN invoice[i].paid - a ELSE 0
             due == IF invoice[i].due + a < Total[i] THEN invoice[i].due + a ELSE Total[i]
  <1>3. /\ Reopened(i, a).paid = left /\ Reopened(i, a).due = due
        /\ Reopened(i, a).status = IF left = 0 THEN "sent" ELSE "partially_paid"
    BY DEF Reopened
  <1>4. left + due <= Total[i] /\ left \in Nat /\ due > 0
    BY <1>1, <1>2
  <1> HIDE DEF left, due
  <1> QED
    BY <1>3, <1>4 DEF Fits

LEMMA WithinStep == IInv /\ WithinTotal /\ [Next]_vars => WithinTotal'
  <1> SUFFICES ASSUME IInv, WithinTotal, [Next]_vars, NEW i \in Invoice PROVE Fits(i, invoice'[i])
    BY DEF WithinTotal, Fits
  <1> USE DEF IInv
  <1>0. Fits(i, invoice[i]) /\ invoice \in [Invoice -> InvoiceRow]
    BY DEF WithinTotal, Fits, TypeOK
  <1>1. CASE UNCHANGED invoice
    BY <1>0, <1>1
  <1>2. ASSUME NEW r \in Req, SettleRecorded(r) PROVE Fits(i, invoice'[i])
    <2>1. Settleable(arg[r].inv, arg[r].amount)
            => Fits(arg[r].inv, Settled(arg[r].inv, arg[r].amount, arg[r].of))
      BY <1>2, SettledFits, AskType DEF SettleRecorded, At, RequestsFit
    <2> QED
      BY <1>0, <1>2, <2>1, AskType DEF SettleRecorded
  <1>3. ASSUME NEW r \in Req, CheckoutCommit(r) PROVE Fits(i, invoice'[i])
    <2>1. Settleable(arg[r].inv, arg[r].amount)
            => Fits(arg[r].inv, Settled(arg[r].inv, arg[r].amount, arg[r].of))
      BY <1>3, SettledFits, AskType DEF CheckoutCommit, At, RequestsFit
    <2> QED
      BY <1>0, <1>3, <2>1, AskType DEF CheckoutCommit
  <1>4. ASSUME NEW r \in Req, RefundCommit(r) PROVE Fits(i, invoice'[i])
    <2>1. Fits(arg[r].inv, Reopened(arg[r].inv, arg[r].amount))
      BY <1>4, AskType, ReopenedFits DEF RefundCommit, At, RequestsFit
    <2> QED
      BY <1>0, <1>4, <2>1, AskType DEF RefundCommit
  <1>5. ASSUME NEW r \in Req, NEW a \in Amount, AccountPayment(r, a)
        PROVE  Fits(i, invoice'[i])
    <2>1. ASSUME NEW split \in [Invoice -> 0..a], Spread(r, a, split)
          PROVE  Fits(i, invoice'[i])
      <3>1. split[i] > 0 => Fits(i, Settled(i, split[i], <<r, i>>))
        BY <2>1, SettledFits DEF Spread, PaymentId
      <3> QED
        BY <1>0, <2>1, <3>1 DEF Spread
    <2> QED
      BY <1>0, <1>5, <2>1, AccountCases
  <1> QED
    BY <1>1, <1>2, <1>3, <1>4, <1>5, InvoiceWriters
-----------------------------------------------------------------------------
(* A step of a payment handler *)

LEMMA OnlyItsPlace ==
  ASSUME TypeOK, NEW r \in Req, Receive(r) \/ Step(r)
  PROVE  dead' = dead /\ \A q \in Req \ {r} : pc'[q] = pc[q]
  <1>1. CASE Receive(r)
    BY <1>1 DEF Receive, ReceiveRecord, ReceiveCheckout, ReadForRefund, AccountPayment, Goto, TypeOK
  <1>2. CASE Step(r)
    BY <1>2 DEF Step, ReadForRecord, CreatePayment, SettleRecorded, MarkFailed,
                ReduceBalance, ReadForCheckout, CheckoutCommit, RefundCommit, Goto, TypeOK
  <1> QED
    BY <1>1, <1>2

LEMMA StepIsWork ==
  ASSUME NEW r \in Req, Step(r) \/ CutOff(r)
  PROVE  r \in Req \ dead /\ pc[r] \in Working
  <1>1. CASE Step(r)
    BY <1>1 DEF Step, ReadForRecord, CreatePayment, SettleRecorded, MarkFailed,
                ReduceBalance, ReadForCheckout, CheckoutCommit, RefundCommit, At, Working
  <1>2. CASE CutOff(r)
    BY <1>2 DEF CutOff
  <1> QED
    BY <1>1, <1>2

\* A step of a payment handler next to which nobody else is at work.
AloneAtWork ==
  \/ ~Busy /\ \E r \in Req : Receive(r)
  \/ \E r \in Req : Step(r) \/ CutOff(r)

LEMMA PaymentAlone ==
  ASSUME TypeOK, Alone, AloneAtWork, UNCHANGED creditVars
  PROVE  Alone' /\ \A c \in Clerk : at[c] \in Resting
  <1>1. at' = at
    BY DEF creditVars
  <1>2. ASSUME NEW r \in Req, Receive(r), ~Busy
        PROVE  Alone' /\ \A c \in Clerk : at[c] \in Resting
    <2>1. /\ \A c \in Clerk : at[c] \in Resting
          /\ \A q \in Req \ dead : pc[q] \notin Working
      BY <1>2 DEF Busy, Resting
    <2>2. dead' = dead /\ \A q \in Req \ {r} : pc'[q] = pc[q]
      BY <1>2, OnlyItsPlace
    <2> QED
      BY <1>1, <2>1, <2>2 DEF Alone
  <1>3. ASSUME NEW r \in Req, Step(r) \/ CutOff(r)
        PROVE  Alone' /\ \A c \in Clerk : at[c] \in Resting
    <2>1. r \in Req \ dead /\ pc[r] \in Working
      BY <1>3, StepIsWork
    <2>2. /\ \A c \in Clerk : at[c] \in Resting
          /\ \A q \in Req \ dead : pc[q] \in Working => q = r
      BY <2>1 DEF Alone
    <2>3. dead \subseteq dead' /\ \A q \in Req \ {r} : pc'[q] = pc[q]
      BY <1>3, OnlyItsPlace DEF CutOff
    <2> QED
      BY <1>1, <2>2, <2>3 DEF Alone
  <1> QED
    BY <1>2, <1>3 DEF AloneAtWork

LEMMA PaymentSerial ==
  ASSUME IInv, Serial, AloneAtWork, [Next]_vars, UNCHANGED creditVars
  PROVE  Serial'
  <1>1. Alone' /\ \A c \in Clerk : at[c] \in Resting
    BY PaymentAlone DEF IInv, Serial
  <1>2. WithinTotal'
    BY WithinStep DEF Serial
  <1>3. ReadsHold'
    BY <1>1 DEF ReadsHold, Resting, creditVars
  <1>4. Room'
    <2>1. note' = note /\ at' = at
      BY DEF creditVars
    <2>2. \A i \in Invoice : Credited(i) <= Total[i]
      BY DEF Serial, Room
    <2>3. \A i \in Invoice : Credited(i)' = Credited(i)
      BY <2>1 DEF Credited
    <2> QED
      BY <1>1, <2>1, <2>2, <2>3 DEF Room, Resting
  <1> QED
    BY <1>1, <1>2, <1>3, <1>4 DEF Serial

\* Payments move what is paid and what is due against each other.
LEMMA PaymentConserves ==
  ASSUME RInv, WithinTotal, PaysWhole, [Next]_vars, NEW i \in Invoice
  PROVE  invoice'[i].paid + invoice'[i].due = invoice[i].paid + invoice[i].due
  <1>1. /\ invoice[i].paid \in Nat /\ invoice[i].due \in Nat
    BY DEF RInv, Waiting, IInv, TypeOK, InvoiceRow
  <1>2. CASE Rests
    BY <1>2 DEF Rests
  <1>3. ASSUME NEW r \in Req, NEW split \in [Invoice -> Nat], Gains(r, split)
        PROVE  invoice'[i].paid + invoice'[i].due = invoice[i].paid + invoice[i].due
    <2>1. /\ invoice'[i].paid = invoice[i].paid + split[i] /\ split[i] \in Nat
          /\ invoice'[i].due = invoice[i].due - split[i]
      BY <1>3 DEF Gains
    <2> QED
      BY <1>1, <2>1
  <1>4. ASSUME NEW p \in PaymentId, NEW a \in Nat, Returns(p, a)
        PROVE  invoice'[i].paid + invoice'[i].due = invoice[i].paid + invoice[i].due
    <2>1. /\ \A j \in Invoice \ {p[2]} : invoice'[j] = invoice[j]
          /\ invoice'[p[2]].paid = invoice[p[2]].paid - a
          /\ invoice'[p[2]].due = invoice[p[2]].due + a
      BY <1>4 DEF Returns
    <2> QED
      BY <1>1, <2>1
  <1> QED
    BY <1>2, <1>3, <1>4, StepMoves

LEMMA PaymentBalanced ==
  ASSUME RefundsWait, IInv, Answering, CreditTyped, WithinTotal, Balanced,
         [Next]_vars, UNCHANGED creditVars,
         \A i \in Invoice : invoice'[i].paid > invoice[i].paid => ~(Credited(i) > 0)
  PROVE  Balanced'
  <1>1. RInv
    BY DEF RInv, Waiting, Answering, Balanced
  <1>2. PaysWhole
    <2>1. ASSUME NEW i \in Invoice, invoice'[i].paid > invoice[i].paid PROVE Credited(i) = 0
      <3>1. Credited(i) \in Nat
        BY CreditsType
      <3> QED
        BY <2>1, <3>1
    <2> QED
      BY <2>1 DEF PaysWhole, Balanced, Uncredited
  <1>3. RInv'
    BY <1>1, <1>2, RInvStep
  <1>4. TypeOK' /\ WithinTotal'
    BY <1>3, WithinStep DEF RInv, Waiting, IInv
  <1>5. Gap' = Gap
    BY <1>1, <1>2, <1>4, InStepNext
  <1>6. CreditLag' = CreditLag /\ \A i \in Invoice : Credited(i)' = Credited(i)
    BY DEF CreditLag, Reduction, Credited, creditVars
  <1>7. Uncredited'
    BY <1>1, <1>2, <1>6, PaymentConserves DEF Uncredited, Whole, Balanced
  <1> QED
    BY <1>3, <1>5, <1>6, <1>7 DEF RInv, Balanced

LEMMA PaymentAnswers ==
  ASSUME RefundsWait, IInv, Answering, [Next]_vars
  PROVE  Answering'
  <1>1. /\ Waiting /\ NotYetMade /\ RefundsFollowAnswers /\ CheckoutsComplete /\ Made /\ Charged
        /\ TypeOK
    BY DEF Answering, Waiting, IInv
  <1> QED
    BY <1>1, NotYetMadeStep, RefundsFollowStep, CheckoutsStep, MadeStep, ChargedStep
       DEF Answering

LEMMA PaymentStep ==
  ASSUME CreditInv, [Next]_vars, UNCHANGED creditVars,
         mixed \in BOOLEAN, ~mixed' => ~mixed /\ AloneAtWork,
         lost' = lost \cup {i \in Invoice : invoice'[i].paid > invoice[i].paid /\ Credited(i) > 0}
  PROVE  CreditInv'
  <1>1. IInv'
    BY IInvStep DEF CreditInv
  <1>2. CreditTyped' /\ NotesFit'
    BY DEF CreditInv, CreditTyped, NotesFit, creditVars
  <1>3. ~mixed' => Serial'
    BY PaymentSerial DEF CreditInv
  <1>4. RefundsWait => Answering'
    BY PaymentAnswers DEF CreditInv
  <1>5. ASSUME RefundsWait, ~mixed', lost' = {} PROVE Balanced'
    <2>1. lost = {} /\ \A i \in Invoice : invoice'[i].paid > invoice[i].paid => ~(Credited(i) > 0)
      BY <1>5
    <2> QED
      BY <1>5, <2>1, PaymentBalanced DEF CreditInv, Serial
  <1> QED
    BY <1>1, <1>2, <1>3, <1>4, <1>5 DEF CreditInv
-----------------------------------------------------------------------------
(* A step of a credit-note request *)

\* It leaves the payments alone, and of an invoice what is paid and with which payments.
LEMMA CreditFrame ==
  ASSUME IInv, UNCHANGED <<payment, pc, arg, dead>>,
         invoice' \in [Invoice -> InvoiceRow], balance' \in Int,
         \A i \in Invoice : /\ invoice'[i].history = invoice[i].history
                            /\ invoice'[i].paid = invoice[i].paid
  PROVE  /\ IInv'
         /\ Answering => Answering'
         /\ PaidIsRemain => PaidIsRemain'
         /\ Lag' = Lag /\ Untied' = Untied
  <1>1. TypeOK'
    BY DEF IInv, TypeOK
  <1>2. RefundWithinPayment' /\ OneChargePerKey' /\ RequestsFit' /\ InFlightExists'
    BY DEF IInv, RefundWithinPayment, OneChargePerKey, RequestsFit, InFlightExists
  <1>3. HistoryIsSettled' /\ SettledInHistory'
    <2>1. \A r \in Req : arg[r].inv \in Invoice
      BY AskType DEF IInv
    <2> QED
      BY <2>1 DEF IInv, HistoryIsSettled, SettledInHistory
  <1>4. Answering => Answering'
    <2>1. ASSUME Made PROVE Made'
      <3>1. \A p \in PaymentId : p[2] \in Invoice
        BY DEF PaymentId
      <3> QED
        BY <2>1, <3>1 DEF Made
    <2> QED
      BY <2>1 DEF Answering, NotYetMade, RefundsFollowAnswers, CheckoutsComplete, Charged
  <1>5. PaidIsRemain => PaidIsRemain'
    <2>1. Remain' = Remain
      BY DEF Remain, Refundable
    <2> QED
      BY <2>1 DEF PaidIsRemain
  <1>6. Lag' = Lag /\ Untied' = Untied
    BY DEF Lag, Behind, Untied, Loose
  <1> QED
    BY <1>1, <1>2, <1>3, <1>4, <1>5, <1>6 DEF IInv

LEMMA CreditAlone ==
  ASSUME Alone, UNCHANGED <<pc, dead>>, NEW c \in Clerk, at[c] \notin Resting \/ ~Busy,
         \A d \in Clerk \ {c} : at'[d] = at[d]
  PROVE  Alone' /\ \A d \in Clerk \ {c} : at[d] \in Resting /\ at'[d] \in Resting
  <1>1. /\ \A d \in Clerk \ {c} : at[d] \in Resting
        /\ \A r \in Req \ dead : pc[r] \notin Working
    <2>1. CASE ~Busy
      BY <2>1 DEF Busy, Resting
    <2>2. CASE at[c] \notin Resting
      BY <2>2 DEF Alone
    <2> QED
      BY <2>1, <2>2
  <1> QED
    BY <1>1 DEF Alone

\* The steps that leave the books alone but may make a note.
BeforeApply(c) ==
  \/ CheckCredit(c) \/ NumberCredit(c) \/ CreateNote(c)
  \/ \E i \in Invoice, a \in Amount, apply \in BOOLEAN : ReadForCredit(c, i, a, apply)

LEMMA ReadFields ==
  ASSUME CreditTyped, NEW c \in Clerk, NEW i \in Invoice, NEW a \in Amount, NEW apply \in BOOLEAN,
         TypeOK, ReadForCredit(c, i, a, apply)
  PROVE  /\ at[c] = "idle" /\ at' = [at EXCEPT ![c] = "check"] /\ note' = note
         /\ read' \in [Clerk -> ReadRow] /\ \A d \in Clerk \ {c} : read'[d] = read[d]
         /\ read'[c].amount = a /\ a \in Nat /\ a > 0
         /\ read'[c].inv = i /\ invoice[i].status \in Creditable
         /\ read'[c].due = invoice[i].due /\ read'[c].paid = invoice[i].paid
  <1>1. /\ a \in Nat /\ a > 0 /\ 0 \in Nat
        /\ invoice[i].due \in Nat /\ invoice[i].paid \in Nat
    BY SettlementAssumption DEF TypeOK, InvoiceRow
  <1> DEFINE row == [inv |-> i, amount |-> a, apply |-> apply, due |-> invoice[i].due,
                     paid |-> invoice[i].paid, number |-> 0]
  <1>2. /\ row \in ReadRow /\ row.amount = a /\ row.inv = i
        /\ row.due = invoice[i].due /\ row.paid = invoice[i].paid
    BY <1>1 DEF ReadRow
  <1>3. read' = [read EXCEPT ![c] = row]
    BY DEF ReadForCredit
  <1> HIDE DEF row
  <1>4. /\ read' \in [Clerk -> ReadRow] /\ \A d \in Clerk \ {c} : read'[d] = read[d]
        /\ read'[c] = row
    BY <1>2, <1>3 DEF CreditTyped
  <1> QED
    BY <1>1, <1>2, <1>4 DEF ReadForCredit, Step1

LEMMA NumberFields ==
  ASSUME CreditTyped, NEW c \in Clerk, NumberCredit(c)
  PROVE  /\ at[c] = "number" /\ at' = [at EXCEPT ![c] = "create"] /\ note' = note
         /\ read' \in [Clerk -> ReadRow]
         /\ \A d \in Clerk : /\ read'[d].inv = read[d].inv /\ read'[d].amount = read[d].amount
                             /\ read'[d].due = read[d].due /\ read'[d].paid = read[d].paid
  <1>1. Cardinality(Issued) + 1 \in Nat
    BY IssuedIsFinite
  <1>2. read' = [read EXCEPT ![c].number = Cardinality(Issued) + 1]
    BY DEF NumberCredit
  <1>3. read \in [Clerk -> ReadRow]
    BY DEF CreditTyped
  <1> QED
    BY <1>1, <1>2, <1>3 DEF NumberCredit, Step1, ReadRow

LEMMA NoteFields ==
  ASSUME CreditTyped, NEW c \in Clerk, CreateNote(c)
  PROVE  /\ at[c] = "create" /\ read' = read
         /\ \A d \in Clerk \ {c} : note'[d] = note[d] /\ at'[d] = at[d]
         /\ note' \in [Clerk -> NoteRow] /\ at'[c] \in {"apply", "done"}
         /\ \/ note' = note /\ at'[c] = "done"
            \/ note'[c].inv = read[c].inv /\ note'[c].amount = read[c].amount
  <1> DEFINE taken == \E d \in Issued : note[d].number = read[c].number
             row == [inv |-> read[c].inv, amount |-> read[c].amount, number |-> read[c].number]
  <1>1. row \in NoteRow /\ row.inv = read[c].inv /\ row.amount = read[c].amount
    BY DEF CreditTyped, ReadRow, NoteRow
  <1>2. /\ at[c] = "create" /\ read' = read
        /\ at' = [at EXCEPT ![c] = IF ~taken /\ read[c].apply THEN "apply" ELSE "done"]
        /\ note' = IF taken THEN note ELSE [note EXCEPT ![c] = row]
    BY DEF CreateNote, Step1
  <1> HIDE DEF taken, row
  <1> QED
    BY <1>1, <1>2 DEF CreditTyped

LEMMA BeforeFields ==
  ASSUME IInv, CreditTyped, NotesFit, NEW c \in Clerk, BeforeApply(c)
  PROVE  /\ CreditTyped' /\ NotesFit'
         /\ UNCHANGED <<invoice, payment, balance, pc, arg, dead>>
         /\ \A d \in Clerk \ {c} : at'[d] = at[d] /\ note'[d] = note[d]
         /\ at[c] # "post" /\ at'[c] # "post"
         /\ \A d \in Clerk \ {c} : /\ read'[d].inv = read[d].inv /\ read'[d].amount = read[d].amount
                                   /\ read'[d].due = read[d].due /\ read'[d].paid = read[d].paid
  <1> USE DEF IInv
  <1>1. ASSUME NEW i \in Invoice, NEW a \in Amount, NEW apply \in BOOLEAN,
               ReadForCredit(c, i, a, apply)
        PROVE  /\ CreditTyped' /\ NotesFit' /\ at[c] # "post" /\ at'[c] # "post"
               /\ \A d \in Clerk \ {c} : at'[d] = at[d] /\ note'[d] = note[d] /\ read'[d] = read[d]
    BY <1>1, ReadFields DEF CreditTyped, NotesFit, Resting
  <1>2. ASSUME CheckCredit(c)
        PROVE  /\ CreditTyped' /\ NotesFit' /\ at[c] # "post" /\ at'[c] # "post"
               /\ \A d \in Clerk \ {c} : at'[d] = at[d] /\ note'[d] = note[d] /\ read'[d] = read[d]
    BY <1>2 DEF CheckCredit, Step1, CreditTyped, NotesFit, Resting
  <1>3. ASSUME NumberCredit(c)
        PROVE  /\ CreditTyped' /\ NotesFit' /\ at[c] # "post" /\ at'[c] # "post"
               /\ \A d \in Clerk \ {c} : at'[d] = at[d] /\ note'[d] = note[d]
    BY <1>3, NumberFields DEF CreditTyped, NotesFit, Resting
  <1>4. ASSUME CreateNote(c)
        PROVE  /\ CreditTyped' /\ NotesFit' /\ at[c] # "post" /\ at'[c] # "post"
    <2>1. at' \in [Clerk -> Resting \cup {"check", "number", "create", "apply", "post"}]
      BY <1>4 DEF CreateNote, Step1, CreditTyped, Resting
    <2> QED
      BY <1>4, <2>1, NoteFields DEF CreditTyped, NotesFit, Resting
  <1>5. UNCHANGED <<invoice, payment, balance, pc, arg, dead>>
    BY DEF BeforeApply, ReadForCredit, CheckCredit, NumberCredit, CreateNote, KeepBooks
  <1> QED
    BY <1>1, <1>2, <1>3, <1>4, <1>5, NumberFields, NoteFields DEF BeforeApply

\* A new note adds its amount to what its invoice is credited.
LEMMA NoteCredits ==
  ASSUME CreditTyped, CreditTyped', NotesFit, NEW c \in Clerk, CreateNote(c), note' # note,
         NEW i \in Invoice
  PROVE  Credited(i)' = Credited(i) + (IF read[c].inv = i THEN read[c].amount ELSE 0)
  <1> DEFINE f == Credits(i)
             g == Credits(i)'
  <1>1. f \in [Clerk -> Int] /\ g \in [Clerk -> Int]
    BY CreditsType, CreditsTypeNext
  <1>2. \A d \in Clerk \ {c} : f[d] = g[d]
    BY NoteFields DEF Credits
  <1>3. note[c] = NoNote
    BY NoteFields DEF NotesFit
  <1>4. f[c] = 0
    BY <1>3 DEF Credits, NoNote
  <1>5. g[c] = IF read[c].inv = i THEN read[c].amount ELSE 0
    BY NoteFields DEF Credits
  <1>6. Credited(i) = SumFunction(f) /\ Credited(i)' = SumFunction(g)
    BY DEF Credited, Credits
  <1> HIDE DEF f, g
  <1>7. SumFunction(g) = SumFunction(f) + (g[c] - f[c])
    BY <1>1, <1>2, CreditAssumption, TotalChange
  <1>8. g[c] \in Int
    BY <1>1
  <1> QED
    BY <1>4, <1>5, <1>6, <1>7, <1>8

\* Whoever is at work keeps to the room there is.
LEMMA RoomKept ==
  ASSUME IInv, CreditTyped, CreditTyped', NotesFit, Serial, NEW c \in Clerk, BeforeApply(c),
         \A d \in Clerk \ {c} : at'[d] \in Resting
  PROVE  Room'
  <1> USE DEF Serial, Room
  <1>0. /\ \A i \in Invoice : Credited(i) <= Total[i] /\ Credited(i) \in Nat /\ Total[i] \in Nat
        /\ read[c].inv \in Invoice /\ read[c].amount \in Nat
    BY CreditsType, SettlementAssumption DEF CreditTyped, ReadRow
  <1>1. ASSUME note' = note
        PROVE  \A i \in Invoice : Credited(i)' = Credited(i)
    BY <1>1 DEF Credited
  <1>2. CASE \E i \in Invoice, a \in Amount, apply \in BOOLEAN : ReadForCredit(c, i, a, apply)
    <2>1. note' = note /\ at'[c] = "check"
      BY <1>2 DEF ReadForCredit, Step1, CreditTyped
    <2> QED
      BY <1>0, <1>1, <2>1 DEF Resting
  <1>3. CASE CheckCredit(c)
    <2>1. /\ note' = note /\ read' = read
          /\ at'[c] = "number" => read[c].amount <= Total[read[c].inv] - Credited(read[c].inv)
          /\ at'[c] \in {"number", "done"}
      BY <1>3 DEF CheckCredit, Step1, CreditTyped
    <2>2. at'[c] = "number" => Credited(read[c].inv) + read[c].amount <= Total[read[c].inv]
      BY <1>0, <2>1
    <2>3. \A d \in Clerk : at'[d] \in {"number", "create"} =>
            Credited(read[d].inv) + read[d].amount <= Total[read[d].inv]
      BY <2>1, <2>2 DEF Resting
    <2>4. \A d \in Clerk : read[d].inv \in Invoice
      BY DEF CreditTyped, ReadRow
    <2> QED
      BY <1>0, <1>1, <2>1, <2>3, <2>4
  <1>4. CASE NumberCredit(c)
    <2>1. /\ note' = note /\ at[c] = "number"
          /\ read'[c].inv = read[c].inv /\ read'[c].amount = read[c].amount
      BY <1>4, NumberFields
    <2>2. Credited(read[c].inv) + read[c].amount <= Total[read[c].inv]
      BY <2>1
    <2>3. \A d \in Clerk : at'[d] \in {"number", "create"} => d = c
      BY DEF Resting
    <2> QED
      BY <1>0, <1>1, <2>1, <2>2, <2>3
  <1>5. CASE CreateNote(c)
    <2>1. \A d \in Clerk : at'[d] \notin {"number", "create"}
      BY <1>5, NoteFields DEF Resting
    <2>2. Credited(read[c].inv) + read[c].amount <= Total[read[c].inv]
      BY <1>5, NoteFields
    <2>3. ASSUME NEW i \in Invoice PROVE Credited(i)' <= Total[i]
      <3>1. CASE note' = note
        BY <1>0, <1>1, <3>1
      <3>2. CASE note' # note
        BY <1>0, <1>5, <2>2, <3>2, NoteCredits
      <3> QED
        BY <3>1, <3>2
    <2> QED
      BY <2>1, <2>3
  <1> QED
    BY <1>2, <1>3, <1>4, <1>5 DEF BeforeApply

LEMMA BeforeSerial ==
  ASSUME IInv, CreditTyped, NotesFit, Serial, NEW c \in Clerk, BeforeApply(c),
         at[c] \notin Resting \/ ~Busy
  PROVE  Serial'
  <1>1. Alone' /\ \A d \in Clerk \ {c} : at[d] \in Resting /\ at'[d] \in Resting
    BY BeforeFields, CreditAlone DEF Serial
  <1>2. invoice' = invoice /\ CreditTyped'
    BY BeforeFields
  <1>3. WithinTotal'
    BY <1>2 DEF Serial, WithinTotal
  <1>4. ASSUME at'[c] \in {"check", "number", "create", "apply"}
        PROVE  /\ invoice[read'[c].inv].due = read'[c].due
               /\ invoice[read'[c].inv].paid = read'[c].paid
               /\ invoice[read'[c].inv].status \in Creditable
    <2>1. CASE \E i \in Invoice, a \in Amount, apply \in BOOLEAN : ReadForCredit(c, i, a, apply)
      BY <2>1, ReadFields DEF IInv
    <2>2. CASE ~ \E i \in Invoice, a \in Amount, apply \in BOOLEAN : ReadForCredit(c, i, a, apply)
      <3>1. /\ at[c] \in {"check", "number", "create"}
            /\ read'[c].inv = read[c].inv /\ read'[c].due = read[c].due
            /\ read'[c].paid = read[c].paid
        BY <2>2, NumberFields, NoteFields DEF BeforeApply, CheckCredit, Step1
      <3> QED
        BY <3>1 DEF Serial, ReadsHold
    <2> QED
      BY <2>1, <2>2
  <1>5. ReadsHold'
    BY <1>1, <1>2, <1>4 DEF ReadsHold, Resting
  <1>6. Room'
    BY <1>1, <1>2, RoomKept
  <1> QED
    BY <1>1, <1>3, <1>5, <1>6 DEF Serial

LEMMA BeforeBalanced ==
  ASSUME IInv, CreditTyped, NotesFit, Balanced, NEW c \in Clerk, BeforeApply(c)
  PROVE  Balanced'
  <1>1. /\ UNCHANGED <<invoice, payment, balance, pc, arg, dead>> /\ CreditTyped'
        /\ \A d \in Clerk \ {c} : at'[d] = at[d] /\ note'[d] = note[d]
        /\ at[c] # "post" /\ at'[c] # "post"
        /\ \A d \in Clerk \ {c} : read'[d].due = read[d].due /\ read'[d].amount = read[d].amount
    BY BeforeFields
  <1>2. PaidIsRemain'
    BY <1>1 DEF Balanced, PaidIsRemain, Remain, Refundable
  <1>3. Gap' = Gap
    BY <1>1 DEF Gap, Owed, Due, Lag, Behind, Untied, Loose
  <1>4. \A d \in Clerk : (IF at'[d] = "post" THEN Reduction(d)' ELSE 0)
                          = (IF at[d] = "post" THEN Reduction(d) ELSE 0)
    BY <1>1 DEF Reduction
  <1>5. CreditLag' = CreditLag
    BY <1>4 DEF CreditLag
  <1>6. ASSUME NEW i \in Invoice, Credited(i)' = 0 PROVE Credited(i) = 0
    <2>1. CASE note' = note
      BY <1>6, <2>1 DEF Credited
    <2>2. CASE note' # note
      <3>1. CreateNote(c)
        BY <2>2, NumberFields DEF BeforeApply, ReadForCredit, CheckCredit
      <3>2. Credited(i) \in Nat /\ read[c].amount \in Nat
        BY CreditsType DEF CreditTyped, ReadRow
      <3>3. Credited(i)' = Credited(i) + (IF read[c].inv = i THEN read[c].amount ELSE 0)
        BY <1>1, <2>2, <3>1, NoteCredits
      <3> QED
        BY <1>6, <3>2, <3>3
    <2> QED
      BY <2>1, <2>2
  <1>7. Uncredited'
    BY <1>1, <1>6 DEF Uncredited, Whole, Balanced
  <1> QED
    BY <1>2, <1>3, <1>5, <1>7 DEF Balanced

\* What saving the invoice does to it, whatever was read of it.
LEMMA ApplyFields ==
  ASSUME TypeOK, CreditTyped, NEW c \in Clerk, ApplyCredit(c),
         NEW i \in Invoice, i = read[c].inv
  PROVE  /\ at[c] = "apply" /\ at' = [at EXCEPT ![c] = "post"]
         /\ UNCHANGED <<note, read, payment, balance, pc, arg, dead>>
         /\ invoice' \in [Invoice -> InvoiceRow]
         /\ \A j \in Invoice \ {i} : invoice'[j] = invoice[j]
         /\ invoice'[i].paid = invoice[i].paid /\ invoice'[i].history = invoice[i].history
         /\ invoice'[i].due =
              IF Reduction(c) = 0 THEN invoice[i].due ELSE read[c].due - Reduction(c)
         /\ invoice'[i].status =
              IF read[c].due - Reduction(c) = 0 /\ read[c].paid > 0
              THEN "paid" ELSE invoice[i].status
  <1> DEFINE left == IF Reduction(c) = 0 THEN invoice[i].due ELSE read[c].due - Reduction(c)
             status == IF read[c].due - Reduction(c) = 0 /\ read[c].paid > 0
                       THEN "paid" ELSE invoice[i].status
  <1>1. invoice \in [Invoice -> InvoiceRow] /\ invoice[i] \in InvoiceRow
    BY DEF TypeOK
  <1>2. left \in Nat /\ status \in InvoiceStatus
    BY <1>1, CreditsType DEF InvoiceRow, InvoiceStatus, CreditTyped, ReadRow
  <1>3. invoice' = [invoice EXCEPT ![i].due = left, ![i].status = status]
    BY <1>1 DEF ApplyCredit, InvoiceRow
  <1> HIDE DEF left, status
  <1>4. /\ invoice' \in [Invoice -> InvoiceRow]
        /\ \A j \in Invoice \ {i} : invoice'[j] = invoice[j]
        /\ invoice'[i].paid = invoice[i].paid /\ invoice'[i].history = invoice[i].history
        /\ invoice'[i].due = left /\ invoice'[i].status = status
    BY <1>1, <1>2, <1>3 DEF InvoiceRow
  <1>5. /\ at[c] = "apply" /\ at' = [at EXCEPT ![c] = "post"]
        /\ UNCHANGED <<note, read, payment, balance, pc, arg, dead>>
    BY DEF ApplyCredit, Step1
  <1> QED
    BY <1>4, <1>5 DEF left, status

\* While the invoice is as it was read, it owes that much less.
LEMMA ApplySerial ==
  ASSUME IInv, CreditTyped, Serial, NEW c \in Clerk, ApplyCredit(c)
  PROVE  Serial' /\ Owed' = Owed - Reduction(c)
  <1>0. PICK i \in Invoice : i = read[c].inv
    BY DEF CreditTyped, ReadRow
  <1>1. TypeOK /\ invoice[i] \in InvoiceRow
    BY DEF IInv, TypeOK
  <1>2. /\ at[c] = "apply" /\ at' = [at EXCEPT ![c] = "post"]
        /\ UNCHANGED <<note, read, payment, balance, pc, arg, dead>>
        /\ invoice' \in [Invoice -> InvoiceRow]
        /\ \A j \in Invoice \ {i} : invoice'[j] = invoice[j]
        /\ invoice'[i].paid = invoice[i].paid
        /\ invoice'[i].due =
             IF Reduction(c) = 0 THEN invoice[i].due ELSE read[c].due - Reduction(c)
        /\ invoice'[i].status =
             IF read[c].due - Reduction(c) = 0 /\ read[c].paid > 0
             THEN "paid" ELSE invoice[i].status
    BY <1>0, <1>1, ApplyFields
  <1>3. /\ invoice[i].due = read[c].due /\ invoice[i].paid = read[c].paid
        /\ invoice[i].status \in Creditable
    BY <1>0, <1>2 DEF Serial, ReadsHold
  <1>4. /\ Reduction(c) \in Nat /\ Reduction(c) <= invoice[i].due
        /\ invoice[i].due \in Nat /\ invoice[i].paid \in Nat
    BY <1>1, <1>3, CreditsType DEF InvoiceRow
  <1>5. /\ invoice'[i].due = invoice[i].due - Reduction(c)
        /\ invoice'[i].status =
             IF invoice[i].due - Reduction(c) = 0 /\ invoice[i].paid > 0
             THEN "paid" ELSE invoice[i].status
    BY <1>2, <1>3, <1>4
  <1>6. Fits(i, invoice[i]) /\ Total[i] \in Nat
    BY SettlementAssumption DEF Serial, WithinTotal, Fits
  <1>7. Fits(i, invoice'[i])
    <2>1. CASE invoice[i].due - Reduction(c) = 0 /\ invoice[i].paid > 0
      <3>1. /\ invoice'[i].status = "paid" /\ invoice'[i].due = 0
            /\ invoice'[i].paid = invoice[i].paid /\ invoice[i].paid > 0
        BY <1>2, <1>5, <2>1
      <3>2. invoice[i].paid + 0 <= Total[i]
        BY <1>4, <1>6 DEF Fits
      <3> QED
        BY <3>1, <3>2 DEF Fits
    <2>2. CASE ~(invoice[i].due - Reduction(c) = 0 /\ invoice[i].paid > 0)
      <3>1. /\ invoice'[i].status = invoice[i].status
            /\ invoice'[i].due = invoice[i].due - Reduction(c)
            /\ invoice'[i].paid = invoice[i].paid
        BY <1>2, <1>5, <2>2
      <3>2. ~(invoice[i].due = 0 /\ invoice[i].paid > 0)
        BY <1>4, <2>2
      <3>3. invoice[i].paid + (invoice[i].due - Reduction(c)) <= Total[i]
        BY <1>4, <1>6 DEF Fits
      <3> QED
        BY <1>6, <2>2, <3>1, <3>2, <3>3 DEF Fits
    <2> QED
      BY <2>1, <2>2
  <1>8. WithinTotal'
    BY <1>2, <1>7 DEF WithinTotal, Fits, Serial
  <1>9. Alone' /\ \A d \in Clerk \ {c} : at[d] \in Resting /\ at'[d] \in Resting
    <2>1. \A d \in Clerk \ {c} : at'[d] = at[d]
      BY <1>2 DEF CreditTyped
    <2> QED
      BY <1>2, <2>1, CreditAlone DEF Serial, Resting
  <1>10. at'[c] = "post"
    BY <1>2 DEF CreditTyped
  <1>11. ReadsHold'
    BY <1>9, <1>10 DEF ReadsHold, Resting
  <1>12. Room'
    <2>1. \A j \in Invoice : Credited(j)' = Credited(j)
      BY <1>2 DEF Credited
    <2> QED
      BY <1>9, <1>10, <2>1 DEF Room, Resting, Serial
  <1>13. Owed' = Owed - Reduction(c)
    <2> DEFINE f == Dues
               g == Dues'
    <2>1. TypeOK'
      BY <1>1, <1>2 DEF TypeOK
    <2>2. f \in [Invoice -> Int] /\ g \in [Invoice -> Int]
      BY <1>1, <2>1, SumTypes, SumTypesNext
    <2>3. \A j \in Invoice \ {i} : f[j] = g[j]
      BY <1>2 DEF Dues, Due
    <2>4. f[i] = (IF invoice[i].status \in Payable THEN invoice[i].due ELSE 0)
          /\ g[i] = (IF invoice'[i].status \in Payable THEN invoice'[i].due ELSE 0)
      BY DEF Dues, Due
    <2>5. g[i] - f[i] = 0 - Reduction(c)
      <3>1. CASE invoice[i].status = "paid"
        <4>1. invoice[i].due = 0
          BY <1>6, <3>1 DEF Fits
        <4> QED
          BY <1>4, <1>5, <2>4, <3>1, <4>1 DEF Payable
      <3>2. CASE invoice[i].status \in Payable
        BY <1>4, <1>5, <2>4, <3>2 DEF Payable
      <3> QED
        BY <1>3, <3>1, <3>2 DEF Creditable
    <2>6. Owed = SumFunction(f) /\ Owed' = SumFunction(g)
      BY DEF Owed, Dues
    <2> HIDE DEF f, g
    <2>7. SumFunction(g) = SumFunction(f) + (g[i] - f[i])
      BY <2>2, <2>3, PaymentsFinite, TotalChange
    <2>8. SumFunction(f) \in Int
      BY <2>2, PaymentsFinite, TotalInt
    <2> QED
      BY <1>4, <2>5, <2>6, <2>7, <2>8
  <1> QED
    BY <1>8, <1>9, <1>11, <1>12, <1>13 DEF Serial

\* A request between its last two writes counts for what the customer's balance has not seen yet.
LEMMA CreditLagChanges ==
  ASSUME CreditTyped, CreditTyped', NEW c \in Clerk, read' = read,
         \A d \in Clerk \ {c} : at'[d] = at[d]
  PROVE  CreditLag' = CreditLag + ((IF at'[c] = "post" THEN Reduction(c) ELSE 0)
                                   - (IF at[c] = "post" THEN Reduction(c) ELSE 0))
         /\ CreditLag \in Int
  <1> DEFINE f == Lags
             g == Lags'
  <1>1. f \in [Clerk -> Int] /\ g \in [Clerk -> Int]
    BY CreditsType, CreditsTypeNext
  <1>2. \A d \in Clerk \ {c} : f[d] = g[d]
    BY DEF Lags, Reduction
  <1>3. f[c] = (IF at[c] = "post" THEN Reduction(c) ELSE 0)
        /\ g[c] = (IF at'[c] = "post" THEN Reduction(c) ELSE 0)
    BY DEF Lags, Reduction
  <1>4. CreditLag = SumFunction(f) /\ CreditLag' = SumFunction(g)
    BY DEF CreditLag, Lags
  <1> HIDE DEF f, g
  <1>5. SumFunction(g) = SumFunction(f) + (g[c] - f[c])
    BY <1>1, <1>2, CreditAssumption, TotalChange
  <1>6. SumFunction(f) \in Int
    BY <1>1, CreditAssumption, TotalInt
  <1> QED
    BY <1>3, <1>4, <1>5, <1>6

LEMMA ApplyStep ==
  ASSUME CreditInv, NEW c \in Clerk, ApplyCredit(c), mixed' = mixed, lost' = {} => lost = {}
  PROVE  CreditInv'
  <1> USE DEF CreditInv
  <1>0. PICK i \in Invoice : i = read[c].inv
    BY DEF CreditTyped, ReadRow
  <1>1. TypeOK
    BY DEF IInv
  <1>2. /\ at[c] = "apply" /\ at' = [at EXCEPT ![c] = "post"]
        /\ UNCHANGED <<note, read, payment, balance, pc, arg, dead>>
        /\ invoice' \in [Invoice -> InvoiceRow]
        /\ \A j \in Invoice \ {i} : invoice'[j] = invoice[j]
        /\ invoice'[i].paid = invoice[i].paid /\ invoice'[i].history = invoice[i].history
    BY <1>0, <1>1, ApplyFields
  <1>3. /\ IInv' /\ (Answering => Answering') /\ (PaidIsRemain => PaidIsRemain')
        /\ Lag' = Lag /\ Untied' = Untied
    BY <1>1, <1>2, CreditFrame DEF TypeOK
  <1>4. /\ CreditTyped' /\ NotesFit' /\ at'[c] = "post"
        /\ \A d \in Clerk \ {c} : at'[d] = at[d]
    BY <1>2 DEF CreditTyped, NotesFit, Resting
  <1>5. ~mixed' => Serial' /\ Owed' = Owed - Reduction(c)
    BY ApplySerial
  <1>6. ASSUME RefundsWait, ~mixed', lost' = {} PROVE Balanced'
    <2>1. Balanced /\ Owed' = Owed - Reduction(c)
      BY <1>5, <1>6
    <2>2. /\ balance \in Int /\ Owed \in Int /\ Lag \in Int /\ Untied \in Int
          /\ Reduction(c) \in Int
      BY <1>1, SumTypes, CreditsType
    <2>3. CreditLag' = CreditLag + Reduction(c)
      <3>1. /\ CreditLag \in Int
            /\ CreditLag' = CreditLag + ((IF at'[c] = "post" THEN Reduction(c) ELSE 0)
                                         - (IF at[c] = "post" THEN Reduction(c) ELSE 0))
        BY <1>2, <1>4, CreditLagChanges
      <3> QED
        BY <1>2, <1>4, <2>2, <3>1
    <2>4. balance - (Owed + Lag - Untied) = CreditLag
      BY <2>1 DEF Balanced, Gap
    <2>5. balance - ((Owed - Reduction(c)) + Lag - Untied) = CreditLag + Reduction(c)
      BY <2>2, <2>4
    <2>6. Gap' = CreditLag'
      BY <1>2, <1>3, <2>1, <2>3, <2>5 DEF Gap
    <2>7. Uncredited'
      <3>1. \A j \in Invoice : Credited(j)' = Credited(j)
        BY <1>2 DEF Credited
      <3>2. Credited(i) # 0
        <4> DEFINE f == Credits(i)
        <4>1. f \in [Clerk -> Nat] /\ Credited(i) = SumFunction(f)
          BY CreditsType DEF Credits, Credited
        <4>2. f[c] > 0
          BY <1>0, <1>2 DEF Credits, NotesFit, Resting
        <4> HIDE DEF f
        <4>3. f[c] <= SumFunction(f) /\ SumFunction(f) \in Nat /\ f[c] \in Nat
          BY <4>1, CreditAssumption, TotalNat
        <4> QED
          BY <4>1, <4>2, <4>3
      <3> QED
        BY <1>2, <2>1, <3>1, <3>2 DEF Balanced, Uncredited, Whole
    <2> QED
      BY <1>3, <2>1, <2>6, <2>7 DEF Balanced
  <1> QED
    BY <1>3, <1>4, <1>5, <1>6

LEMMA PostStep ==
  ASSUME CreditInv, NEW c \in Clerk, PostCredit(c), mixed' = mixed, lost' = {} => lost = {}
  PROVE  CreditInv'
  <1> USE DEF CreditInv
  <1>1. TypeOK /\ Reduction(c) \in Nat /\ balance \in Int
    BY CreditsType DEF IInv, TypeOK
  <1>2. /\ at[c] = "post" /\ at' = [at EXCEPT ![c] = "done"]
        /\ balance' = balance - Reduction(c) /\ balance' \in Int
        /\ UNCHANGED <<note, read, invoice, payment, pc, arg, dead>>
    BY <1>1 DEF PostCredit, Step1
  <1>3. /\ IInv' /\ (Answering => Answering') /\ (PaidIsRemain => PaidIsRemain')
        /\ Lag' = Lag /\ Untied' = Untied
    BY <1>1, <1>2, CreditFrame DEF TypeOK
  <1>4. /\ CreditTyped' /\ NotesFit' /\ at'[c] = "done"
        /\ \A d \in Clerk \ {c} : at'[d] = at[d]
    BY <1>2 DEF CreditTyped, NotesFit, Resting
  <1>5. /\ Owed' = Owed /\ \A j \in Invoice : Credited(j)' = Credited(j)
    BY <1>2 DEF Owed, Due, Credited
  <1>6. ASSUME ~mixed' PROVE Serial'
    <2>1. Alone' /\ \A d \in Clerk \ {c} : at[d] \in Resting /\ at'[d] \in Resting
      BY <1>2, <1>4, <1>6, CreditAlone DEF Serial, Resting
    <2>2. WithinTotal'
      BY <1>2, <1>6 DEF Serial, WithinTotal
    <2>3. ReadsHold' /\ Room'
      BY <1>2, <1>4, <1>5, <1>6, <2>1 DEF Serial, ReadsHold, Room, Resting
    <2> QED
      BY <2>1, <2>2, <2>3 DEF Serial
  <1>7. ASSUME RefundsWait, ~mixed', lost' = {} PROVE Balanced'
    <2>1. Balanced
      BY <1>7
    <2>2. Owed \in Int /\ Lag \in Int /\ Untied \in Int
      BY <1>1, SumTypes
    <2>3. CreditLag' = CreditLag - Reduction(c) /\ CreditLag \in Int
      <3>1. /\ CreditLag \in Int
            /\ CreditLag' = CreditLag + ((IF at'[c] = "post" THEN Reduction(c) ELSE 0)
                                         - (IF at[c] = "post" THEN Reduction(c) ELSE 0))
        BY <1>2, <1>4, CreditLagChanges
      <3> QED
        BY <1>1, <1>2, <1>4, <3>1
    <2>4. balance - (Owed + Lag - Untied) = CreditLag
      BY <2>1 DEF Balanced, Gap
    <2>5. (balance - Reduction(c)) - (Owed + Lag - Untied) = CreditLag - Reduction(c)
      BY <1>1, <2>2, <2>4
    <2>6. Gap' = CreditLag'
      BY <1>2, <1>3, <1>5, <2>3, <2>5 DEF Gap
    <2>7. Uncredited'
      BY <1>2, <1>5, <2>1 DEF Balanced, Uncredited, Whole
    <2> QED
      BY <1>3, <2>1, <2>6, <2>7 DEF Balanced
  <1> QED
    BY <1>3, <1>4, <1>6, <1>7

LEMMA BeforeStep ==
  ASSUME CreditInv, NEW c \in Clerk, BeforeApply(c), lost' = {} => lost = {},
         ~mixed' => ~mixed /\ (at[c] \notin Resting \/ ~Busy)
  PROVE  CreditInv'
  <1> USE DEF CreditInv
  <1>1. /\ CreditTyped' /\ NotesFit'
        /\ UNCHANGED <<invoice, payment, balance, pc, arg, dead>>
    BY BeforeFields
  <1>2. IInv' /\ (Answering => Answering')
    <2>1. invoice \in [Invoice -> InvoiceRow] /\ balance \in Int
      BY DEF IInv, TypeOK
    <2> QED
      BY <1>1, <2>1, CreditFrame
  <1>3. ~mixed' => Serial'
    BY BeforeSerial
  <1>4. RefundsWait /\ ~mixed' /\ lost' = {} => Balanced'
    BY BeforeBalanced
  <1> QED
    BY <1>1, <1>2, <1>3, <1>4

LEMMA CreditStart == CreditInit => CreditInv
  <1> SUFFICES ASSUME CreditInit PROVE CreditInv
    OBVIOUS
  <1>1. Init /\ IInv /\ BooksClose /\ RInv /\ Gap = 0
    BY InitIInv, InitCloses, InitRInv, InitInStep DEF CreditInit
  <1>2. /\ at = [c \in Clerk |-> "idle"] /\ note = [c \in Clerk |-> NoNote]
        /\ read = [c \in Clerk |-> [inv |-> 1, amount |-> 0, apply |-> FALSE, due |-> 0,
                                    paid |-> 0, number |-> 0]]
    BY DEF CreditInit
  <1>3. CreditTyped
    <2>1. 1 \in Invoice
      BY SettlementAssumption DEF Invoice
    <2> DEFINE row == [inv |-> 1, amount |-> 0, apply |-> FALSE, due |-> 0, paid |-> 0,
                       number |-> 0]
    <2>2. row \in ReadRow
      <3>1. 0 \in Nat /\ FALSE \in BOOLEAN
        OBVIOUS
      <3> QED
        BY <2>1, <3>1, Zenon DEF ReadRow
    <2>3. NoNote \in NoteRow
      BY DEF NoNote, NoteRow
    <2> QED
      BY <1>2, <2>2, <2>3 DEF CreditTyped, Resting
  <1>4. NotesFit
    BY <1>2 DEF NotesFit, Resting
  <1>5. \A i \in Invoice : Credited(i) = 0 /\ Total[i] \in Nat
    <2> SUFFICES ASSUME NEW i \in Invoice PROVE Credited(i) = 0 /\ Total[i] \in Nat
      OBVIOUS
    <2> DEFINE f == Credits(i)
    <2>0. f \in [Clerk -> Int]
      BY <1>3, CreditsType
    <2>1. Credited(i) = SumFunction(f)
      BY DEF Credited, Credits
    <2>2. ASSUME NEW c \in Clerk PROVE f[c] = 0
      <3>1. note[c].amount = 0
        BY <1>2 DEF NoNote
      <3>2. f[c] = IF note[c].inv = i THEN note[c].amount ELSE 0
        BY DEF Credits
      <3> QED
        BY <3>1, <3>2
    <2> HIDE DEF f
    <2>3. SumFunction(f) = 0
      BY <2>0, <2>2, CreditAssumption, TotalNothing
    <2> QED
      BY <2>1, <2>3, SettlementAssumption
  <1>6. CreditLag = 0
    <2> DEFINE f == Lags
    <2>1. f \in [Clerk -> Int] /\ CreditLag = SumFunction(f)
      BY <1>3, CreditsType DEF CreditLag, Lags
    <2>2. \A c \in Clerk : f[c] = 0
      BY <1>2 DEF Lags
    <2> HIDE DEF f
    <2> QED
      BY <2>1, <2>2, CreditAssumption, TotalNothing
  <1>7. WithinTotal
    BY <1>1, ClosedIsWhole DEF IInv
  <1>8. Alone /\ ReadsHold
    BY <1>1, <1>2 DEF Alone, ReadsHold, Init, Working, Resting
  <1>9. Room
    BY <1>2, <1>5 DEF Room
  <1>10. Uncredited
    BY <1>1 DEF Uncredited, Whole, BooksClose
  <1> QED
    BY <1>1, <1>3, <1>4, <1>6, <1>7, <1>8, <1>9, <1>10
       DEF CreditInv, Serial, Balanced, RInv, Waiting, Answering

\* Where nothing happens the invariant stays.
LEMMA CreditStutter == CreditInv /\ UNCHANGED allVars => CreditInv'
  <1> SUFFICES ASSUME CreditInv, UNCHANGED allVars PROVE CreditInv'
    OBVIOUS
  <1>1. /\ UNCHANGED vars /\ UNCHANGED creditVars /\ mixed' = mixed /\ lost' = lost
        /\ UNCHANGED <<invoice, payment, balance, pc, arg, dead, note, at, read>>
    BY DEF allVars, vars, creditVars
  <1>2. IInv'
    BY <1>1, IInvStep DEF CreditInv
  <1>3. CreditTyped' /\ NotesFit'
    BY <1>1 DEF CreditInv, CreditTyped, NotesFit
  <1>4. Serial => Serial'
    BY <1>1 DEF Serial, Alone, WithinTotal, ReadsHold, Room, Credited
  <1>5. Answering => Answering'
    BY <1>1 DEF Answering, NotYetMade, RefundsFollowAnswers, CheckoutsComplete, Made, Charged
  <1>6. Balanced => Balanced'
    BY <1>1 DEF Balanced, PaidIsRemain, Remain, Refundable, Uncredited, Credited, Whole, Gap,
                CreditLag, Reduction, Owed, Due, Lag, Behind, Untied, Loose
  <1> QED
    BY <1>1, <1>2, <1>3, <1>4, <1>5, <1>6 DEF CreditInv

LEMMA CreditInvStep == CreditInv /\ mixed \in BOOLEAN /\ [CreditNext]_allVars => CreditInv'
  <1> SUFFICES ASSUME CreditInv, mixed \in BOOLEAN, CreditNext PROVE CreditInv'
    BY CreditStutter
  <1>1. lost' = lost \cup {i \in Invoice : invoice'[i].paid > invoice[i].paid /\ Credited(i) > 0}
    BY DEF CreditNext
  <1>2. lost' = {} => lost = {}
    BY <1>1
  <1>3. ASSUME NEW r \in Req, Receive(r), UNCHANGED creditVars, mixed' = (mixed \/ Busy)
        PROVE  CreditInv'
    <2>1. [Next]_vars /\ (~mixed' => ~mixed /\ AloneAtWork)
      BY <1>3 DEF Next, AloneAtWork
    <2> QED
      BY <1>1, <1>3, <2>1, PaymentStep
  <1>4. ASSUME NEW r \in Req, Step(r) \/ CutOff(r), UNCHANGED creditVars, UNCHANGED mixed
        PROVE  CreditInv'
    <2>1. [Next]_vars /\ (~mixed' => ~mixed /\ AloneAtWork)
      BY <1>4 DEF Next, AloneAtWork
    <2> QED
      BY <1>1, <1>4, <2>1, PaymentStep
  <1>5. ASSUME NEW c \in Clerk, NEW i \in Invoice, NEW a \in Amount, NEW apply \in BOOLEAN,
               ReadForCredit(c, i, a, apply), mixed' = (mixed \/ Busy)
        PROVE  CreditInv'
    BY <1>2, <1>5, BeforeStep DEF BeforeApply
  <1>6. ASSUME NEW c \in Clerk, CreditStep(c), UNCHANGED mixed
        PROVE  CreditInv'
    <2>1. CASE CheckCredit(c) \/ NumberCredit(c) \/ CreateNote(c)
      <3>1. at[c] \notin Resting
        BY <2>1 DEF CheckCredit, NumberCredit, CreateNote, Step1, Resting
      <3> QED
        BY <1>2, <1>6, <2>1, <3>1, BeforeStep DEF BeforeApply
    <2> QED
      BY <1>2, <1>6, <2>1, ApplyStep, PostStep DEF CreditStep
  <1> QED
    BY <1>3, <1>4, <1>5, <1>6 DEF CreditNext

\* createCreditNote holds no transaction, yet for every number of invoices, payment requests and
\* credit notes: as long as no request arrives while another is at work, the notes of an invoice
\* never credit more than its total, the invoice never asks for or takes in more than that, and
\* the customer's balance stays what the invoices say is due, unless a payment came after a
\* credit and undid it.
THEOREM CreditAlwaysKeepsBooks == CreditSpec => []CreditKeepsBooks
  <1> DEFINE Both == CreditInv /\ mixed \in BOOLEAN
  <1>1. CreditInit => Both
    BY CreditStart DEF CreditInit
  <1>2. Both /\ [CreditNext]_allVars => Both'
    <2>1. mixed \in BOOLEAN /\ [CreditNext]_allVars => mixed' \in BOOLEAN
      BY DEF CreditNext, allVars
    <2> QED
      BY <2>1, CreditInvStep
  <1>3. Both => CreditKeepsBooks
    <2> SUFFICES ASSUME Both PROVE CreditKeepsBooks
      OBVIOUS
    <2>1. CreditWithinInvoice /\ CreditNeverInflates
      BY DEF CreditInv, Serial, Room, WithinTotal, CreditWithinInvoice, CreditNeverInflates
    <2>2. ASSUME RefundsWait, ~mixed, lost = {}
          PROVE  balance = Owed + Lag + CreditLag - Untied
      <3>1. balance - (Owed + Lag - Untied) = CreditLag
        BY <2>2 DEF CreditInv, Balanced, Gap
      <3>2. balance \in Int /\ Owed \in Int /\ Lag \in Int /\ Untied \in Int
        BY SumTypes DEF CreditInv, IInv
      <3> QED
        BY <3>1, <3>2
    <2> QED
      BY <2>1, <2>2 DEF CreditKeepsBooks, CreditedInStep
  <1> QED
    BY <1>1, <1>2, <1>3, PTL DEF CreditSpec
=============================================================================
