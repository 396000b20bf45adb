-------------------------------- MODULE Reports --------------------------------
(***************************************************************************)
(* What the reports say of one customer's books, next to the handlers that *)
(* write them.  report.controller and ask-business sum the same documents  *)
(* with filters of their own; the balance the customer carries is kept by  *)
(* the handlers one document at a time.  Handlers run one after another    *)
(* here: Settlement, CreditNotes and Store tell how they interleave.       *)
(* One product is sold, its cost as it is now.                             *)
(***************************************************************************)
EXTENDS Integers, Sequences, FiniteSetsExt, Functions

CONSTANTS
  Bill,      \* invoices: each is made at most once
  Figures,   \* what an invoice may come to: [sub, off, tax, qty]
  Cost,      \* of one piece
  Paying,    \* amounts paid, refunded and credited
  Month,     \* days of a month
  Span,      \* days of an aging bucket (30 in the code)
  LastDay,   \* bound
  MaxRecords \* bound: payments, credit notes, returns, and an expense

ASSUME ReportsAssumption ==
  /\ IsFiniteSet(Bill)
  /\ Figures \subseteq [sub : Nat, off : Nat, tax : Nat, qty : Nat \ {0}]
  /\ \A f \in Figures : f.off <= f.sub /\ f.sub - f.off + f.tax > 0
  /\ Cost \in Nat /\ Paying \subseteq Nat \ {0}
  /\ Month \in Nat \ {0} /\ Span \in Nat \ {0}
  /\ LastDay \in Nat /\ MaxRecords \in Nat

VARIABLES
  books, \* the Invoice collection
  paids, \* the Payment collection
  notes, \* the CreditNote collection; off: what is off the invoice because of the note
  again, \* what payments put back on invoices of what notes had taken off them
  backs, \* the Return collection
  spent, \* the sum of the expenses
  debt,  \* the customer's outstandingBalance
  today

reportsVars == <<books, paids, notes, again, backs, spent, debt, today>>

\* over is not stored: what was paid at the till above the total.
Blank == [status |-> "none", sub |-> 0, off |-> 0, tax |-> 0, qty |-> 0, total |-> 0,
          paid |-> 0, due |-> 0, over |-> 0, issued |-> 0, dueOn |-> 0]
Made == {i \in Bill : books[i].status # "none"}
Records == Len(paids) + Len(notes) + Len(backs) + IF spent > 0 THEN 1 ELSE 0
OnAccount == {"approved", "sent", "partially_paid", "overdue"}
Over(set, what(_)) == SumFunction([x \in set |-> what(x)])
SumAll(seq, what(_)) == SumFunction([n \in DOMAIN seq |-> what(seq[n])])
-----------------------------------------------------------------------------
(* The handlers *)

Written(i, f, status, paid, term) ==
  LET total == f.sub - f.off + f.tax IN
  [books EXCEPT ![i] =
     [status |-> status, sub |-> f.sub, off |-> f.off, tax |-> f.tax, qty |-> f.qty,
      total |-> total, paid |-> paid, due |-> Max({0, total - paid}),
      over |-> Max({0, paid - total}), issued |-> today, dueOn |-> today + term]]

\* An invoice of which payments or credit notes change what is due.
Standing(b, status, paid, due) ==
  [status |-> status, sub |-> b.sub, off |-> b.off, tax |-> b.tax, qty |-> b.qty,
   total |-> b.total, paid |-> paid, due |-> due, over |-> b.over, issued |-> b.issued,
   dueOn |-> b.dueOn]

\* createInvoice: a rule may hold it for approval.
Invoicing(i, f, status, term) ==
  /\ i \notin Made
  /\ status \in {"draft", "pending_approval", "sent"}
  /\ books' = Written(i, f, status, 0, term)
  /\ debt' = debt + IF status = "sent" THEN books'[i].total ELSE 0
  /\ UNCHANGED <<paids, notes, again, backs, spent, today>>

\* posCheckout: what is not paid is on the customer's account, due at once; what is paid above
\* the total is recorded as paid.
Selling(i, f, paid) ==
  /\ i \notin Made
  /\ books' = Written(i, f, IF paid < f.sub - f.off + f.tax THEN "partially_paid" ELSE "paid",
                      paid, 0)
  /\ paids' = IF paid = 0 THEN paids
              ELSE Append(paids, [of |-> i, amount |-> paid, refunded |-> 0,
                                  status |-> "completed"])
  /\ debt' = debt + books'[i].due
  /\ UNCHANGED <<notes, again, backs, spent, today>>

\* updateInvoiceStatus and approveItem.
Steps ==
  [draft |-> {"pending_approval", "approved", "sent", "void", "cancelled"},
   pending_approval |-> {"approved", "draft", "cancelled"},
   approved |-> {"sent", "void", "cancelled"},
   sent |-> {"partially_paid", "overdue", "void", "cancelled"},
   partially_paid |-> {"overdue"}, overdue |-> {"partially_paid"}]
AskedStatus ==
  {"draft", "pending_approval", "approved", "sent", "overdue", "void", "cancelled"}
Moving(i, to) ==
  LET from == books[i].status IN
  /\ from \in DOMAIN Steps /\ to \in Steps[from] \cap AskedStatus
  /\ books' = [books EXCEPT ![i].status = to]
  /\ debt' = debt + CASE to \in OnAccount /\ from \notin OnAccount -> books[i].due
                      [] to \notin OnAccount /\ from \in OnAccount -> -books[i].due
                      [] OTHER -> 0
  /\ UNCHANGED <<paids, notes, again, backs, spent, today>>

\* What notes have off an invoice, and the notes when they have nothing off it any more.
OffNow(i) == SumAll(notes, LAMBDA c : IF c.of = i THEN c.off ELSE 0)
PutBack(i) ==
  [n \in DOMAIN notes |->
     LET c == notes[n] IN
     [of |-> c.of, amount |-> c.amount, off |-> IF c.of = i THEN 0 ELSE c.off,
      status |-> c.status]]

\* recordPayment and settleInvoice: what is due is the total less what was paid, whatever notes
\* took off it before; the balance falls by the payment only.
Receiving(i, a) ==
  LET b == books[i]
      left == b.total - (b.paid + a)
  IN /\ b.status \in OnAccount /\ a <= b.due
     /\ Records < MaxRecords
     /\ books' = [books EXCEPT ![i] =
                    Standing(b, IF left <= 0 THEN "paid" ELSE "partially_paid",
                             b.paid + a, Max({0, left}))]
     /\ paids' = Append(paids, [of |-> i, amount |-> a, refunded |-> 0, status |-> "completed"])
     /\ notes' = PutBack(i)
     /\ again' = again + OffNow(i)
     /\ debt' = debt - a
     /\ UNCHANGED <<backs, spent, today>>

\* refundPayment: the payment keeps its amount.
Refunding(n, a) ==
  LET p == paids[n]
      b == books[p.of]
      status == IF p.refunded + a = p.amount THEN "refunded" ELSE p.status
  IN /\ p.status = "completed" /\ p.refunded + a <= p.amount
     /\ paids' = [paids EXCEPT ![n] = [of |-> p.of, amount |-> p.amount,
                                      refunded |-> p.refunded + a, status |-> status]]
     /\ books' = [books EXCEPT ![p.of] =
                    Standing(b, IF b.paid - a <= 0 THEN "sent" ELSE "partially_paid",
                             Max({0, b.paid - a}), Min({b.total, b.due + a}))]
     /\ debt' = debt + a
     /\ UNCHANGED <<notes, again, backs, spent, today>>

\* createCreditNote.
Crediting(i, a, apply) ==
  LET b == books[i]
      off == IF apply THEN Min({b.due, a}) ELSE 0
      status == IF apply /\ b.due = off /\ b.paid > 0 THEN "paid" ELSE b.status
  IN /\ b.status \in OnAccount \cup {"paid"}
     /\ a + SumAll(notes, LAMBDA c : IF c.of = i THEN c.amount ELSE 0) <= b.total
     /\ Records < MaxRecords
     /\ notes' = Append(notes, [of |-> i, amount |-> a, off |-> off,
                                status |-> IF apply THEN "applied" ELSE "issued"])
     /\ books' = [books EXCEPT ![i] = Standing(b, status, b.paid, b.due - off)]
     /\ debt' = debt - off
     /\ UNCHANGED <<paids, again, backs, spent, today>>

\* processReturn: all of a bill comes back, and what it cost is paid out or taken off the
\* account; a payout is a payment of its own.
Returning(i, method, restock) ==
  LET b == books[i] IN
  /\ i \in Made
  /\ Records < MaxRecords
  /\ \A n \in DOMAIN backs : backs[n].of # i
  /\ backs' = Append(backs, [of |-> i, total |-> b.total, tax |-> b.tax, qty |-> b.qty,
                             restock |-> restock, method |-> method])
  /\ paids' = IF method # "cash" THEN paids
              ELSE Append(paids, [of |-> i, amount |-> -b.total, refunded |-> 0,
                                  status |-> "refunded"])
  /\ debt' = debt - IF method = "customer_balance" THEN b.total ELSE 0
  /\ UNCHANGED <<books, notes, again, spent, today>>

Spending(a) ==
  spent' = spent + a /\ UNCHANGED <<books, paids, notes, again, backs, debt, today>>

DayPasses == today' = today + 1 /\ UNCHANGED <<books, paids, notes, again, backs, spent, debt>>

ReportsInit ==
  /\ books = [i \in Bill |-> Blank]
  /\ paids = <<>> /\ notes = <<>> /\ backs = <<>>
  /\ again = 0 /\ spent = 0 /\ debt = 0 /\ today = 0

ReportsNext ==
  \/ \E i \in Bill, f \in Figures, s \in {"draft", "pending_approval", "sent"}, t \in {0, 1} :
       Invoicing(i, f, s, t)
  \/ \E i \in Bill, f \in Figures, a \in Paying \cup {0} : Selling(i, f, a)
  \/ \E i \in Bill, to \in AskedStatus : Moving(i, to)
  \/ \E i \in Bill, a \in Paying : Receiving(i, a)
  \/ \E n \in DOMAIN paids, a \in Paying : Refunding(n, a)
  \/ \E i \in Bill, a \in Paying, apply \in BOOLEAN : Crediting(i, a, apply)
  \/ \E i \in Bill, m \in {"cash", "store_credit", "customer_balance"}, r \in BOOLEAN :
       Returning(i, m, r)
  \/ spent = 0 /\ Records < MaxRecords /\ Spending(Cost)
  \/ today < LastDay /\ DayPasses

ReportsSpec == ReportsInit /\ [][ReportsNext]_reportsVars
-----------------------------------------------------------------------------
(* The reports *)

NotIssued == {"draft", "pending_approval", "void", "cancelled"}
Issued == {i \in Made : books[i].status \notin NotIssued}
\* What most reports leave out is less: they count what waits for approval.
Counted == {i \in Made : books[i].status \notin {"draft", "void", "cancelled"}}
Completed(p) == IF p.status = "completed" THEN p.amount ELSE 0

\* On the day it is due an invoice is overdue by the clock of the dashboard.
getDashboardSummary ==
  LET Late == {i \in Issued :
                 books[i].status = "overdue" \/ (books[i].due > 0 /\ books[i].dueOn <= today)}
  IN [revenue     |-> Over(Issued, LAMBDA i : books[i].total),
      collected   |-> SumAll(paids, Completed),
      outstanding |-> Over(Issued, LAMBDA i : books[i].due),
      overdue     |-> Over(Late, LAMBDA i : books[i].due)]

processAskBusinessQuery ==
  [revenue     |-> Over(Issued, LAMBDA i : books[i].total),
   collected   |-> SumAll(paids, Completed),
   outstanding |-> Over(Issued, LAMBDA i : books[i].due)]

getAgencySummary == Over({i \in Made : books[i].status \in OnAccount}, LAMBDA i : books[i].due)

\* The buckets' labels start at 0 days, the second one's days at 1.
getARAgingReport ==
  LET late(i) == today - books[i].dueOn
      sum(lo, hi) == Over({i \in Counted : books[i].due > 0 /\ lo < late(i) /\ late(i) <= hi},
                          LAMBDA i : books[i].due)
      buckets == [current |-> sum(-(LastDay + 2), 0), to60 |-> sum(0, Span),
                  to90 |-> sum(Span, 2 * Span), over90 |-> sum(2 * Span, LastDay)]
      overdue == buckets.to60 + buckets.to90 + buckets.over90
  IN [overdue |-> overdue, receivables |-> buckets.current + overdue]

getRevenueReport ==
  [m \in {books[i].issued \div Month : i \in Counted} |->
     LET In == {i \in Counted : books[i].issued \div Month = m} IN
     [revenue |-> Over(In, LAMBDA i : books[i].total), tax |-> Over(In, LAMBDA i : books[i].tax)]]

getBestSellersReport ==
  [units   |-> Over(Counted, LAMBDA i : books[i].qty),
   revenue |-> Over(Counted, LAMBDA i : books[i].total)]

getGSTSummaryReport ==
  [taxable |-> Over(Counted, LAMBDA i : Max({0, books[i].sub - books[i].off})),
   tax     |-> Over(Counted, LAMBDA i : books[i].tax)]

CostOfGoods == Over(Counted, LAMBDA i : books[i].qty * Cost)

\* Refunds before tax; goods on the shelf again are not sold.
getProfitReport ==
  LET gross   == Over(Counted, LAMBDA i : books[i].sub)
      off     == Over(Counted, LAMBDA i : books[i].off)
      refunds == SumAll(backs, LAMBDA r : r.total - r.tax)
      goods   == CostOfGoods - SumAll(backs, LAMBDA r : IF r.restock THEN r.qty * Cost ELSE 0)
  IN [gross |-> gross, off |-> off, net |-> gross - off - refunds,
      tax |-> Over(Counted, LAMBDA i : books[i].tax),
      profit |-> gross - off - refunds - goods - spent]

\* Refunds with their tax, and all goods sold.
buildRetailKpis ==
  LET gross == Over(Counted, LAMBDA i : books[i].sub)
      off   == Over(Counted, LAMBDA i : books[i].off)
  IN [gross |-> gross,
      profit |-> gross - off - SumAll(backs, LAMBDA r : r.total) - CostOfGoods - spent]

\* Mutant of getCustomerStatement: notes that were only issued count.
StatementOfAllNotes ==
  Over(Issued, LAMBDA i : books[i].total) - SumAll(paids, Completed)
    - SumAll(notes, LAMBDA c : c.amount)

\* The running balance at the end of the statement.
getCustomerStatement ==
  Over(Issued, LAMBDA i : books[i].total) - SumAll(paids, Completed)
    - SumAll(notes, LAMBDA c : IF c.status = "applied" THEN c.amount ELSE 0)
-----------------------------------------------------------------------------
(* Properties *)

\* What an invoice still tells of having been paid above its total: refunds and payments that
\* follow may let it go.
Carried(i) == books[i].due + books[i].paid + OffNow(i) - books[i].total

\* The dashboard, the assistant and the agency's summary tell one sum of what is receivable:
\* what the customer owes, but for returns taken off the account, what payments put back of
\* credit notes, and what was paid above a total and its invoice let go; the aging report adds
\* what waits for approval, and calls nothing else overdue that the dashboard does not.
ReceivablesAgree ==
  LET shown   == getDashboardSummary
      aging   == getARAgingReport
      pending == Over(Counted \ Issued, LAMBDA i : books[i].due)
      Refund(r) == IF r.method = "customer_balance" THEN r.total ELSE 0
  IN /\ processAskBusinessQuery = [a \in DOMAIN shown \ {"overdue"} |-> shown[a]]
     /\ getAgencySummary = shown.outstanding
     /\ \A i \in Bill : Carried(i) \in 0..books[i].over
     /\ shown.outstanding
          = debt + again + SumAll(backs, Refund)
              - Over(Bill, LAMBDA i : books[i].over - Carried(i))
     /\ aging.receivables = shown.outstanding + pending
     /\ aging.overdue <= shown.overdue + pending

\* The reports of sales add up to each other: the months to the best sellers, the tax of each
\* to that of the others, what is taxed to what was sold less discounts; the dashboard's profit
\* is that of the profit report, but for the tax and the restocked goods of returns.
SalesAgree ==
  LET months == getRevenueReport
      sellers == getBestSellersReport
      gst == getGSTSummaryReport
      profit == getProfitReport
      Extra(r) == r.tax + IF r.restock THEN r.qty * Cost ELSE 0
  IN /\ SumFunction([m \in DOMAIN months |-> months[m].revenue]) = sellers.revenue
     /\ SumFunction([m \in DOMAIN months |-> months[m].tax]) = gst.tax
     /\ sellers.revenue = gst.taxable + gst.tax
     /\ gst.taxable = profit.gross - profit.off
     /\ buildRetailKpis.profit = profit.profit - SumAll(backs, Extra)

\* What a note is more than what is off an invoice because of it that is still issued.
Excess(c) ==
  IF c.status # "applied" THEN 0
  ELSE c.amount - IF books[c.of].status \in NotIssued THEN 0 ELSE c.off

\* A statement ends with what the customer owes, less the refunds of payments that were not
\* refunded in full, what credit notes exceed what is off for them and what was paid above a
\* total, and with returns put back that were taken off the account and what payments put back
\* of credit notes.
StatementTellsDebt ==
  getCustomerStatement
    = debt + again + SumAll(backs, LAMBDA r : IF r.method = "customer_balance" THEN r.total ELSE 0)
        - SumAll(paids, LAMBDA p : IF p.status = "completed" THEN p.refunded ELSE 0)
        - SumAll(notes, Excess)
        - Over(Bill, LAMBDA i : books[i].over - IF i \in Issued THEN 0 ELSE Carried(i))

ReportsTypeOK ==
  /\ DOMAIN books = Bill
  /\ Records <= MaxRecords + Cardinality(Made) \* a sale stores its payment too
  /\ debt \in Int /\ again \in Nat /\ spent \in Nat /\ today \in 0..LastDay

\* Whatever is sold, paid, refunded, credited and returned, the dashboards, reports, statement
\* and assistant tell of one set of books.
ReportsAgree == ReportsTypeOK /\ ReceivablesAgree /\ SalesAgree /\ StatementTellsDebt
=============================================================================
