----------------------------- MODULE Settlement -----------------------------
(***************************************************************************)
(* The three ways money meets an invoice: payments.controller's            *)
(* recordPayment, refundPayment and testCheckout, and the account payment  *)
(* of customer.payment, all for the invoices of ONE customer.  Every await *)
(* of recordPayment is a step of its own, because nothing holds the three  *)
(* documents it writes together.  The bodies of session.withTransaction    *)
(* are one step each: they write every document they decide on, so         *)
(* MongoDB's first-writer-wins conflict makes them atomic at commit.       *)
(***************************************************************************)
EXTENDS Integers, FiniteSets, FiniteSetsExt, Functions

CONSTANTS
  NumInvoices,  \* the customer's invoices, numbered oldest first
  Total,        \* grandTotal of each invoice, in the smallest currency unit
  FirstStatus,  \* statuses an invoice may have when the run starts
  Req,          \* requests: each is one execution of one handler
  Key,          \* idempotency keys clients put on requests
  NoKey,        \* a request without a key
  Amount,       \* amounts clients ask for
  Mortal,       \* requests an error or a crash may cut off between two awaits
  RefundsWait   \* TRUE: users refund a payment only once its request answered

Invoice == 1..NumInvoices
PaymentId == Req \X Invoice     \* the payment request r made on invoice i

Payable == {"approved", "sent", "partially_paid", "overdue"}
InvoiceStatus == Payable \cup {"draft", "pending_approval", "paid", "void", "cancelled"}
PaymentStatus == {"none", "pending", "completed", "failed", "refunded"}
Answered == {"ok", "replayed", "rejected", "conflict", "error"}
Working == {"read", "create", "settle", "reduce", "fail", "commit", "claim"}

ASSUME SettlementAssumption ==
  /\ NumInvoices \in Nat \ {0}
  /\ Total \in [Invoice -> Nat \ {0}]
  /\ FirstStatus \subseteq InvoiceStatus \ {"paid", "partially_paid"}
  /\ IsFiniteSet(Req)
  /\ NoKey \notin Key
  /\ Amount \subseteq Nat \ {0}
  /\ Mortal \subseteq Req
  /\ RefundsWait \in BOOLEAN

VARIABLES
  invoice,  \* the Invoice collection
  payment,  \* the Payment collection
  balance,  \* the customer's outstandingBalance
  pc,       \* where each request is
  arg,      \* what each request asks
  dead      \* requests cut off where pc says

vars == <<invoice, payment, balance, pc, arg, dead>>

\* Invoices that count towards the customer's balance.
Due(i) == IF invoice[i].status \in Payable THEN invoice[i].due ELSE 0
Owed == SumFunction([i \in Invoice |-> Due(i)])

NoPayment == [status |-> "none", amount |-> 0, refunded |-> 0, key |-> NoKey]
Asks(op, i, a, k, asked, p) ==
  [op |-> op, inv |-> i, amount |-> a, key |-> k, asked |-> asked, of |-> p]
NoArg(r) == Asks("none", 1, 0, NoKey, "completed", <<r, 1>>)

Init ==
  /\ \E status \in [Invoice -> FirstStatus] :
       invoice = [i \in Invoice |->
         [status |-> status[i], paid |-> 0, due |-> Total[i], history |-> {}]]
  /\ payment = [p \in PaymentId |-> NoPayment]
  /\ balance = Owed /\ balance \in Int
  /\ pc = [r \in Req |-> "idle"]
  /\ arg = [r \in Req |-> NoArg(r)]
  /\ dead = {}

At(r, where) == r \notin dead /\ pc[r] = where
Goto(r, where) == pc' = [pc EXCEPT ![r] = where]

KeyTaken(k) == k # NoKey /\ \E p \in PaymentId : /\ payment[p].status # "none"
                                                 /\ payment[p].key = k

\* What both payment handlers ask of the invoice they read.
CanPay(i, a) == /\ invoice[i].due > 0
                /\ a <= invoice[i].due
                /\ invoice[i].status \in Payable

NewPayment(r, status) ==
  [status |-> status, amount |-> arg[r].amount, refunded |-> 0, key |-> arg[r].key]

(* settleInvoice: the conditional filter and the pipeline update. *)
\* Mutant of Settleable: the filter asks for the status alone.
SettleableByStatus(i, a) == invoice[i].status \in Payable
Settleable(i, a) == invoice[i].status \in Payable /\ invoice[i].due >= a
Settled(i, a, p) ==
  LET paid == invoice[i].paid + a
      left == Total[i] - paid
  IN [status  |-> IF left <= 0 THEN "paid" ELSE "partially_paid",
      paid    |-> paid,
      due     |-> IF left > 0 THEN left ELSE 0,
      history |-> invoice[i].history \cup {p}]
-----------------------------------------------------------------------------
(* recordPayment *)

ReceiveRecord(r, i, a, k, asked) ==
  /\ At(r, "idle")
  /\ arg' = [arg EXCEPT ![r] = Asks("record", i, a, k, asked, <<r, i>>)]
  /\ Goto(r, IF KeyTaken(k) THEN "replayed" ELSE "read")
  /\ UNCHANGED <<invoice, payment, balance, dead>>

ReadForRecord(r) ==
  /\ At(r, "read") /\ arg[r].op = "record"
  /\ Goto(r, IF CanPay(arg[r].inv, arg[r].amount) THEN "create" ELSE "rejected")
  /\ UNCHANGED <<invoice, payment, balance, arg, dead>>

\* The unique index on (organizationId, idempotencyKey) refuses a second insert.
CreatePayment(r) ==
  /\ At(r, "create")
  /\ IF KeyTaken(arg[r].key)
     THEN Goto(r, "error") /\ UNCHANGED payment
     ELSE /\ payment' = [payment EXCEPT ![arg[r].of] = NewPayment(r, arg[r].asked)]
          /\ Goto(r, IF arg[r].asked = "completed" THEN "settle" ELSE "ok")
  /\ UNCHANGED <<invoice, balance, arg, dead>>

SettleRecorded(r) ==
  LET i == arg[r].inv IN
  /\ At(r, "settle")
  /\ IF Settleable(i, arg[r].amount)
     THEN /\ invoice' = [invoice EXCEPT ![i] = Settled(i, arg[r].amount, arg[r].of)]
          /\ Goto(r, "reduce")
     ELSE Goto(r, "fail") /\ UNCHANGED invoice
  /\ UNCHANGED <<payment, balance, arg, dead>>

\* Mutant of MarkFailed: the request answers without touching its payment.
MarkNothing(r) ==
  /\ At(r, "fail")
  /\ Goto(r, "conflict")
  /\ UNCHANGED <<invoice, payment, balance, arg, dead>>

\* payment.save() writes the status without looking at what is stored.
MarkFailed(r) ==
  /\ At(r, "fail")
  /\ payment' = [payment EXCEPT ![arg[r].of].status = "failed"]
  /\ Goto(r, "conflict")
  /\ UNCHANGED <<invoice, balance, arg, dead>>

\* Mutant of ReduceBalance: the customer is not written.
ReduceNothing(r) ==
  /\ At(r, "reduce")
  /\ Goto(r, "ok")
  /\ UNCHANGED <<invoice, payment, balance, arg, dead>>

ReduceBalance(r) ==
  /\ At(r, "reduce")
  /\ balance' = balance - arg[r].amount
  /\ Goto(r, "ok")
  /\ UNCHANGED <<invoice, payment, arg, dead>>
-----------------------------------------------------------------------------
(* testCheckout *)

\* amount 0: the client left it out and pays what is due.
ReceiveCheckout(r, i, a, k) ==
  /\ At(r, "idle")
  /\ arg' = [arg EXCEPT ![r] = Asks("checkout", i, a, k, "completed", <<r, i>>)]
  /\ Goto(r, IF KeyTaken(k) THEN "replayed" ELSE "read")
  /\ UNCHANGED <<invoice, payment, balance, dead>>

ReadForCheckout(r) ==
  LET i == arg[r].inv
      a == IF arg[r].amount = 0 THEN invoice[i].due ELSE arg[r].amount
  IN /\ At(r, "read") /\ arg[r].op = "checkout"
     /\ arg' = [arg EXCEPT ![r].amount = a]
     /\ Goto(r, IF CanPay(i, a) THEN "commit" ELSE "rejected")
     /\ UNCHANGED <<invoice, payment, balance, dead>>

CheckoutCommit(r) ==
  LET i == arg[r].inv
      a == arg[r].amount
  IN /\ At(r, "commit")
     /\ IF KeyTaken(arg[r].key) \/ ~Settleable(i, a)
        THEN /\ Goto(r, IF KeyTaken(arg[r].key) THEN "error" ELSE "conflict")
             /\ UNCHANGED <<invoice, payment, balance>>
        ELSE /\ payment' = [payment EXCEPT ![arg[r].of] = NewPayment(r, "completed")]
             /\ invoice' = [invoice EXCEPT ![i] = Settled(i, a, arg[r].of)]
             /\ balance' = balance - a
             /\ Goto(r, "ok")
     /\ UNCHANGED <<arg, dead>>
-----------------------------------------------------------------------------
(* refundPayment *)

Refundable(p) == payment[p].amount - payment[p].refunded

\* amount 0: the client left it out and takes back all that is left.
ReadForRefund(r, p, a) ==
  LET wanted == IF a = 0 THEN Refundable(p) ELSE a IN
  /\ At(r, "idle") /\ payment[p].status # "none"
  /\ RefundsWait => pc[p[1]] = "ok"
  /\ arg' = [arg EXCEPT ![r] = Asks("refund", p[2], wanted, NoKey, "completed", p)]
  /\ Goto(r, IF /\ payment[p].status = "completed"
                /\ 0 < wanted /\ wanted <= Refundable(p)
             THEN "claim" ELSE "rejected")
  /\ UNCHANGED <<invoice, payment, balance, dead>>

GiveBack(p, a) ==
  LET back == payment[p].refunded + a IN
  [status   |-> IF back = payment[p].amount THEN "refunded" ELSE "completed",
   amount   |-> payment[p].amount,
   refunded |-> back,
   key      |-> payment[p].key]

\* Mutant of Reopened: the payment history is cleared.
ReopenedBlank(i, a) ==
  LET paid == IF invoice[i].paid > a THEN invoice[i].paid - a ELSE 0
      due  == invoice[i].due + a
  IN [status |-> IF paid = 0 THEN "sent" ELSE "partially_paid", paid |-> paid,
      due |-> IF due < Total[i] THEN due ELSE Total[i], history |-> {}]

Reopened(i, a) ==
  LET paid == IF invoice[i].paid > a THEN invoice[i].paid - a ELSE 0
      due  == invoice[i].due + a
  IN [status  |-> IF paid = 0 THEN "sent" ELSE "partially_paid",
      paid    |-> paid,
      due     |-> IF due < Total[i] THEN due ELSE Total[i],
      history |-> invoice[i].history]

\* Mutant of Claimable: the claim trusts the amount checked before it.
ClaimableByStatus(p, a) == payment[p].status = "completed"
\* The conditional claim: concurrent refunds cannot exceed the payment.
Claimable(p, a) == /\ payment[p].status = "completed"
                   /\ payment[p].refunded + a <= payment[p].amount

\* The claim re-checks the payment; invoice and balance follow in the same
\* transaction.
RefundCommit(r) ==
  LET p == arg[r].of
      i == arg[r].inv
      a == arg[r].amount
  IN /\ At(r, "claim")
     /\ IF Claimable(p, a)
        THEN /\ payment' = [payment EXCEPT ![p] = GiveBack(p, a)]
             /\ invoice' = [invoice EXCEPT ![i] = Reopened(i, a)]
             /\ balance' = balance + a
             /\ Goto(r, "ok")
        ELSE Goto(r, "conflict") /\ UNCHANGED <<invoice, payment, balance>>
     /\ UNCHANGED <<arg, dead>>
-----------------------------------------------------------------------------
(* recordCustomerPayment *)

Open(i) == invoice[i].status \in Payable /\ invoice[i].due > 0

\* The loop over the open invoices, oldest first: an invoice gets something
\* only once every older open one is paid off, and money stays over only when
\* all of them are.
OldestFirst(split, a) ==
  LET spent == SumFunction(split) IN
  /\ \A i \in Invoice : split[i] <= IF Open(i) THEN invoice[i].due ELSE 0
  /\ \A i, j \in Invoice : i < j /\ split[j] > 0 /\ Open(i) => split[i] = invoice[i].due
  /\ spent <= a
  /\ spent < a => \A i \in Invoice : Open(i) => split[i] = invoice[i].due

AccountPayment(r, a) ==
  /\ At(r, "idle")
  /\ arg' = [arg EXCEPT ![r] = Asks("account", 1, a, NoKey, "completed", <<r, 1>>)]
  /\ IF a > balance
     THEN Goto(r, "rejected") /\ UNCHANGED <<invoice, payment, balance>>
     ELSE \E split \in [Invoice -> 0..a] :
            /\ OldestFirst(split, a)
            /\ payment' = [p \in PaymentId |->
                 IF p[1] = r /\ split[p[2]] > 0
                 THEN [status |-> "completed", amount |-> split[p[2]],
                       refunded |-> 0, key |-> NoKey]
                 ELSE payment[p]]
            /\ invoice' = [i \in Invoice |->
                 IF split[i] > 0 THEN Settled(i, split[i], <<r, i>>) ELSE invoice[i]]
            /\ balance' = balance - a
            /\ Goto(r, "ok")
  /\ UNCHANGED dead
-----------------------------------------------------------------------------
\* An await rejects, or the process stops: nothing after it runs.
CutOff(r) ==
  /\ r \in Mortal \ dead /\ pc[r] \in Working
  /\ dead' = dead \cup {r}
  /\ UNCHANGED <<invoice, payment, balance, pc, arg>>

Receive(r) ==
  \/ \E i \in Invoice, a \in Amount, k \in Key \cup {NoKey}, s \in {"completed", "pending"} :
       ReceiveRecord(r, i, a, k, s)
  \/ \E i \in Invoice, a \in Amount \cup {0}, k \in Key \cup {NoKey} : ReceiveCheckout(r, i, a, k)
  \/ \E p \in PaymentId, a \in Amount \cup {0} : ReadForRefund(r, p, a)
  \/ \E a \in Amount : AccountPayment(r, a)

Step(r) ==
  \/ ReadForRecord(r)   \/ CreatePayment(r)   \/ SettleRecorded(r)
  \/ MarkFailed(r)      \/ ReduceBalance(r)
  \/ ReadForCheckout(r) \/ CheckoutCommit(r)  \/ RefundCommit(r)

Next == \E r \in Req : Receive(r) \/ Step(r) \/ CutOff(r)

Spec == Init /\ [][Next]_vars

\* Node runs a continuation whose await has resolved: a handler that is not cut
\* off goes on.  Nobody is obliged to send a request.
FairSpec == Spec /\ \A r \in Req : WF_vars(Step(r))
-----------------------------------------------------------------------------
(* Properties *)

InvoiceRow == [status : InvoiceStatus, paid : Nat, due : Nat, history : SUBSET PaymentId]
PaymentRow == [status : PaymentStatus, amount : Nat, refunded : Nat, key : Key \cup {NoKey}]
Ask == [op : {"none", "record", "checkout", "refund", "account"}, inv : Invoice,
        amount : Nat, key : Key \cup {NoKey}, asked : {"completed", "pending"}, of : PaymentId]
Where == {"idle"} \cup Working \cup Answered

\* Every variable stays within its type.
TypeOK ==
  /\ invoice \in [Invoice -> InvoiceRow]
  /\ payment \in [PaymentId -> PaymentRow]
  /\ balance \in Int
  /\ pc \in [Req -> Where]
  /\ arg \in [Req -> Ask]
  /\ dead \subseteq Req

\* However payments, checkouts, account payments and refunds interleave, what
\* is paid and what is due make up the invoice's grand total (neither clamp
\* loses money), nothing is overpaid, and the status tells which of the two is
\* zero.
BooksClose ==
  \A i \in Invoice :
    /\ invoice[i].paid + invoice[i].due = Total[i]
    /\ invoice[i].status = "paid" <=> invoice[i].due = 0
    /\ invoice[i].status \in {"paid", "partially_paid"} <=> invoice[i].paid > 0

\* Concurrent partial refunds never give back more than the payment brought in,
\* and only a payment given back in full is called refunded.
RefundWithinPayment ==
  \A p \in PaymentId :
    /\ payment[p].refunded <= payment[p].amount
    /\ payment[p].status = "completed" => payment[p].refunded < payment[p].amount
    /\ payment[p].status = "refunded" => payment[p].refunded = payment[p].amount

\* A client that repeats a keyed request, even while the first is under way,
\* is charged once: a key is on one payment, hence in one payment history.
OneChargePerKey ==
  \A p, q \in PaymentId :
    /\ payment[p].status # "none" /\ payment[q].status # "none"
    /\ payment[p].key = payment[q].key /\ payment[p].key # NoKey
    => p = q

\* An answer agrees with the books: a completed payment answered 201 is in its
\* invoice's history, one answered 409 is in no history, and what a history
\* holds was completed and not declared failed.
AnswersAreTrue ==
  /\ \A r \in Req : arg[r].op \in {"record", "checkout"} /\ arg[r].asked = "completed" =>
       /\ pc[r] = "ok" => arg[r].of \in invoice[arg[r].inv].history
       /\ pc[r] = "conflict" => arg[r].of \notin invoice[arg[r].inv].history
  /\ \A i \in Invoice : \A p \in invoice[i].history :
       p[2] = i /\ payment[p].status \in {"completed", "refunded"}

\* Wherever requests are cut off and however they interleave, payments, invoices and answers
\* agree with each other.
PaymentsAreSound ==
  TypeOK /\ BooksClose /\ RefundWithinPayment /\ OneChargePerKey /\ AnswersAreTrue

\* What an invoice says was paid is what its payment history brought in, net of
\* refunds: no payment is applied twice and no refund is lost.
PaidIsCollected ==
  RefundsWait => \A i \in Invoice :
    invoice[i].paid =
      SumFunctionOnSet([p \in PaymentId |-> Refundable(p)], invoice[i].history)

\* Money an invoice has received that its customer's balance has not seen yet.
Behind(r) == IF pc[r] = "reduce" THEN arg[r].amount ELSE 0
Lag == SumFunction([r \in Req |-> Behind(r)])
\* Money taken on account that found no open invoice.
Loose(r) == IF arg[r].op = "account" /\ pc[r] = "ok"
            THEN arg[r].amount - SumFunction([i \in Invoice |-> payment[<<r, i>>].amount])
            ELSE 0
Untied == SumFunction([r \in Req |-> Loose(r)])

\* The customer's balance is the sum of what the open invoices say is due, but
\* for the payments between their two writes and the money without an invoice.
BalanceInStep == RefundsWait => balance = Owed + Lag - Untied

\* No money is made or lost between payments, invoices and the customer's balance.
MoneyIsKept == PaidIsCollected /\ BalanceInStep

\* A payment's life only goes forward, its refunds only grow, and an invoice
\* never forgets a payment.
PaymentsGoForward ==
  [][/\ \A p \in PaymentId :
          /\ payment'[p].refunded >= payment[p].refunded
          /\ <<payment[p].status, payment'[p].status>> \in
               {<<"none", "pending">>, <<"none", "completed">>, <<"completed", "refunded">>,
                <<"completed", "failed">>} \cup {<<s, s>> : s \in PaymentStatus}
     /\ \A i \in Invoice : invoice[i].history \subseteq invoice'[i].history]_vars

\* If no request is cut off, a payment recorded as completed does not hang: its
\* invoice takes it or it is marked failed.
PaymentsAreDecided ==
  \A p \in PaymentId :
    payment[p].status = "completed" ~>
      p \in invoice[p[2]].history \/ payment[p].status = "failed"

\* What is refunded had been paid in: users did not refund a payment before its
\* request settled it.
RefundedWasPaid ==
  \A p \in PaymentId : payment[p].refunded > 0 => p \in invoice[p[2]].history

\* If no request is cut off and nothing is refunded early, the balance keeps
\* returning to what the open invoices say is due, give or take the money
\* without an invoice.
BalanceCatchesUp == []RefundedWasPaid => []<>(balance = Owed - Untied)

\* The books seen as Receivables: an invoice's history says which payments it
\* collected.
Collected == [p \in PaymentId |->
                IF p \in invoice[p[2]].history THEN payment[p].amount ELSE 0]
Books == INSTANCE Receivables WITH
  Payer <- Req, Money <- UNION {1..Total[i] : i \in Invoice},
  due <- [i \in Invoice |-> invoice[i].due],
  collected <- Collected, returned <- [p \in PaymentId |-> payment[p].refunded]

\* Settlement implements Receivables: whatever the interleaving, and wherever a
\* request is cut off, money moves only in whole collections and returns.
ImplementsReceivables == Books!Spec
=============================================================================
